---- MODULE Spec2Model ----
(***************************************************************************)
(* Model of the autoblog worker: the scheduled ingestion pipeline          *)
(* (fetch feed -> filter against the KV ledger -> per post: summarize with *)
(* retry -> publish to GitHub -> mark processed in KV).                    *)
(*                                                                         *)
(* Strings are sequences of one-character strings, so that the slug and    *)
(* URL functions are computed the way the code computes them.              *)
(***************************************************************************)
EXTENDS Integers, Sequences, FiniteSets, TLC

\* ------------------------------------------------------------------ bounds

\* Number of scheduled runs explored one after the other.
MaxRuns == 2

\* Longest feed document (in items) the RSS endpoint serves.
MaxFeedLen == 3

\* publishToGitHub calls followed one after the other.
MaxCalls == 2

\* Writes of other writers during one publishToGitHub call.
MaxEdits == 2

\* Item blocks of a feed document given to the parser.
MaxItems == 3

\* Longest title given to generateSlug, in characters.
MaxTitleLen == 4

\* Longest path given to extractSlugFromUrl after the host, in characters.
MaxPathLen == 4

\* Keys under the prefix post: in the namespace that is listed.
MaxKeys == 3

\* Longest list of guids given to batchCheckProcessed.
MaxBatch == 3

\* Invocations of scheduled followed when invocations may overlap.
MaxInvocations == 3

\* Invocations of scheduled that are in progress at the same time.
MaxActive == 2

\* Longest content getUserPrompt is given, in characters and entities.
MaxContentLen == 5

\* Largest character budget truncateText is given.
MaxLimit == 4

\* Longest list of posts generateSummaries is given.
MaxPosts == 2

\* ------------------------------------------------------- program constants

\* ai-summarizer.ts: const MAX_RETRIES = 3
MAX_RETRIES == 3

\* ai-summarizer.ts: summary.length < 50
MIN_SUMMARY_LENGTH == 50

\* kv-storage.ts: the most keys one kv.list call asks for
KV_LIST_MAX == 1000

\* ----------------------------------------------------------------- strings

LowerLetters ==
  {"a","b","c","d","e","f","g","h","i","j","k","l","m",
   "n","o","p","q","r","s","t","u","v","w","x","y","z"}

Digits == {"0","1","2","3","4","5","6","7","8","9"}

UpperToLower ==
  [c \in {"A","B","C","D","E","F","G","H","I","J","K","L","M",
          "N","O","P","Q","R","S","T","U","V","W","X","Y","Z"} |->
     CASE c = "A" -> "a" [] c = "B" -> "b" [] c = "C" -> "c" [] c = "D" -> "d"
       [] c = "E" -> "e" [] c = "F" -> "f" [] c = "G" -> "g" [] c = "H" -> "h"
       [] c = "I" -> "i" [] c = "J" -> "j" [] c = "K" -> "k" [] c = "L" -> "l"
       [] c = "M" -> "m" [] c = "N" -> "n" [] c = "O" -> "o" [] c = "P" -> "p"
       [] c = "Q" -> "q" [] c = "R" -> "r" [] c = "S" -> "s" [] c = "T" -> "t"
       [] c = "U" -> "u" [] c = "V" -> "v" [] c = "W" -> "w" [] c = "X" -> "x"
       [] c = "Y" -> "y" [] c = "Z" -> "z"]

\* String.prototype.toLowerCase
toLowerCase(s) ==
  [k \in 1..Len(s) |-> IF s[k] \in DOMAIN UpperToLower THEN UpperToLower[s[k]] ELSE s[k]]

\* Does the literal pat occur in s starting at position k?
MatchesAt(s, k, pat) ==
  /\ k >= 1
  /\ k + Len(pat) - 1 <= Len(s)
  /\ \A j \in 1..Len(pat) : s[k + j - 1] = pat[j]

\* .replace(/[^a-z0-9]+/g, '-'): every maximal run of characters outside
\* [a-z0-9] becomes one hyphen.
RECURSIVE ReplaceNonAlnumRuns(_)
ReplaceNonAlnumRuns(s) ==
  IF s = <<>> THEN <<>>
  ELSE IF Head(s) \in (LowerLetters \cup Digits)
       THEN <<Head(s)>> \o ReplaceNonAlnumRuns(Tail(s))
       ELSE LET rest == ReplaceNonAlnumRuns(Tail(s))
                nextIsRun == Len(s) >= 2 /\ s[2] \notin (LowerLetters \cup Digits)
            IN  IF nextIsRun THEN rest ELSE <<"-">> \o rest

\* .replace(/^-+|-+$/g, ''): leading and trailing hyphens are removed.
RECURSIVE StripLeadingHyphens(_)
StripLeadingHyphens(s) ==
  IF s # <<>> /\ Head(s) = "-" THEN StripLeadingHyphens(Tail(s)) ELSE s

RECURSIVE StripTrailingHyphens(_)
StripTrailingHyphens(s) ==
  IF s # <<>> /\ s[Len(s)] = "-"
  THEN StripTrailingHyphens(SubSeq(s, 1, Len(s) - 1))
  ELSE s

\* A stripping that leaves the trailing hyphens in place.
StripHyphens_leadingOnly(s) == StripLeadingHyphens(s)

StripHyphens(s) == StripTrailingHyphens(StripLeadingHyphens(s))

\* rss-parser.ts generateSlug
generateSlug(title) == StripHyphens(ReplaceNonAlnumRuns(toLowerCase(title)))

BlogHostSlash ==
  <<"b","l","o","g",".","c","l","o","u","d","f","l","a","r","e",".","c","o","m","/">>

\* The longest prefix of s without a slash: what ([^/]+) captures.
RECURSIVE NonSlashPrefix(_)
NonSlashPrefix(s) ==
  IF s = <<>> \/ Head(s) = "/" THEN <<>>
  ELSE <<Head(s)>> \o NonSlashPrefix(Tail(s))

\* The positions where /blog\.cloudflare\.com\/([^/]+)/ can match.
SlugMatchStarts(url) ==
  {k \in 1..Len(url) :
     /\ MatchesAt(url, k, BlogHostSlash)
     /\ k + Len(BlogHostSlash) <= Len(url)
     /\ url[k + Len(BlogHostSlash)] # "/"}

Min(S) == CHOOSE x \in S : \A y \in S : x <= y

\* .replace(/\/$/, '')
StripTrailingSlash(s) ==
  IF s # <<>> /\ s[Len(s)] = "/" THEN SubSeq(s, 1, Len(s) - 1) ELSE s

\* An extraction that returns all that follows the host.
extractSlugFromUrl_rest(url) ==
  IF SlugMatchStarts(url) = {} THEN <<>>
  ELSE SubSeq(url, Min(SlugMatchStarts(url)) + Len(BlogHostSlash), Len(url))

\* rss-parser.ts extractSlugFromUrl
extractSlugFromUrl(url) ==
  IF SlugMatchStarts(url) = {} THEN <<>>
  ELSE LET k == Min(SlugMatchStarts(url))
           m1 == NonSlashPrefix(SubSeq(url, k + Len(BlogHostSlash), Len(url)))
       IN  IF m1 # <<>> THEN StripTrailingSlash(m1) ELSE <<>>

\* ----------------------------------------------------------- feed parser
\* A feed document is a sequence of tokens: a tag, a CDATA bracket, or one
\* character of text.

OpenTag(tag) == "<" \o tag \o ">"

\* An opening tag with an attribute, as the feed writes its guid.
OpenTagWithAttr(tag) == "<" \o tag \o " isPermaLink=\"false\">"

CloseTag(tag) == "</" \o tag \o ">"

\* The tokens <tag[^>]*> matches.
Opens(token, tag) == token \in {OpenTag(tag), OpenTagWithAttr(tag)}

\* What \s matches.
Whitespace == {" ", "\n", "\t"}

RECURSIVE SkipWhitespace(_)
SkipWhitespace(s) ==
  IF s # <<>> /\ Head(s) \in Whitespace THEN SkipWhitespace(Tail(s)) ELSE s

RECURSIVE DropTrailingWhitespace(_)
DropTrailingWhitespace(s) ==
  IF s # <<>> /\ s[Len(s)] \in Whitespace
  THEN DropTrailingWhitespace(SubSeq(s, 1, Len(s) - 1))
  ELSE s

\* String.prototype.trim on a sequence of characters.
trimText(s) == DropTrailingWhitespace(SkipWhitespace(s))

\* .replace(/\n\s*/g, ' '): a newline and the whitespace after it become one
\* space.
RECURSIVE ReplaceNewlineRuns(_)
ReplaceNewlineRuns(s) ==
  IF s = <<>> THEN <<>>
  ELSE IF Head(s) = "\n"
       THEN <<" ">> \o ReplaceNewlineRuns(SkipWhitespace(Tail(s)))
       ELSE <<Head(s)>> \o ReplaceNewlineRuns(Tail(s))

\* .replace(new RegExp(pat, 'g'), rep) for a literal pat.
RECURSIVE ReplaceAll(_, _, _)
ReplaceAll(s, pat, rep) ==
  IF s = <<>> THEN <<>>
  ELSE IF MatchesAt(s, 1, pat)
       THEN rep \o ReplaceAll(SubSeq(s, Len(pat) + 1, Len(s)), pat, rep)
       ELSE <<Head(s)>> \o ReplaceAll(Tail(s), pat, rep)

\* The value of a digit in parseInt(_, 10) and parseInt(_, 16).
DigitValue ==
  [c \in Digits \cup {"a","b","c","d","e","f","A","B","C","D","E","F"} |->
     CASE c = "0" -> 0 [] c = "1" -> 1 [] c = "2" -> 2 [] c = "3" -> 3
       [] c = "4" -> 4 [] c = "5" -> 5 [] c = "6" -> 6 [] c = "7" -> 7
       [] c = "8" -> 8 [] c = "9" -> 9
       [] c \in {"a", "A"} -> 10 [] c \in {"b", "B"} -> 11
       [] c \in {"c", "C"} -> 12 [] c \in {"d", "D"} -> 13
       [] c \in {"e", "E"} -> 14 [] c \in {"f", "F"} -> 15]

\* The longest prefix of s made of characters of the set.
RECURSIVE PrefixIn(_, _)
PrefixIn(s, set) ==
  IF s = <<>> \/ Head(s) \notin set THEN <<>>
  ELSE <<Head(s)>> \o PrefixIn(Tail(s), set)

\* parseInt(digits, base)
RECURSIVE parseInt(_, _)
parseInt(digits, base) ==
  IF digits = <<>> THEN 0
  ELSE parseInt(SubSeq(digits, 1, Len(digits) - 1), base) * base
         + DigitValue[digits[Len(digits)]]

\* String.fromCharCode: the character is written out for the codes the
\* feed texts of the model use and named by its code otherwise.
fromCharCode(n) ==
  CASE n = 32 -> " " [] n = 38 -> "&" [] n = 60 -> "<" [] n = 62 -> ">"
    [] n = 65 -> "A" [] n = 97 -> "a"
    [] OTHER -> "U+" \o ToString(n)

\* .replace(/&#(\d+);/g, ...) and .replace(/&#x([0-9A-Fa-f]+);/g, ...)
RECURSIVE DecodeNumeric(_, _, _, _)
DecodeNumeric(s, prefix, digitSet, base) ==
  IF s = <<>> THEN <<>>
  ELSE LET ds    == PrefixIn(SubSeq(s, Len(prefix) + 1, Len(s)), digitSet)
           after == Len(prefix) + Len(ds) + 1
       IN  IF /\ MatchesAt(s, 1, prefix)
              /\ ds # <<>>
              /\ after <= Len(s)
              /\ s[after] = ";"
           THEN <<fromCharCode(parseInt(ds, base))>>
                  \o DecodeNumeric(SubSeq(s, after + 1, Len(s)), prefix, digitSet, base)
           ELSE <<Head(s)>> \o DecodeNumeric(Tail(s), prefix, digitSet, base)

\* decodeHTMLEntities, the table of named entities, in its order.
NamedEntities ==
  << <<<<"&","a","m","p",";">>, "&">>,
     <<<<"&","l","t",";">>, "<">>,
     <<<<"&","g","t",";">>, ">">>,
     <<<<"&","q","u","o","t",";">>, "\"">>,
     <<<<"&","a","p","o","s",";">>, "'">>,
     <<<<"&","n","b","s","p",";">>, " ">>,
     <<<<"&","e","a","c","u","t","e",";">>, fromCharCode(233)>>,
     <<<<"&","e","g","r","a","v","e",";">>, fromCharCode(232)>>,
     <<<<"&","e","c","i","r","c",";">>, fromCharCode(234)>>,
     <<<<"&","e","u","m","l",";">>, fromCharCode(235)>>,
     <<<<"&","a","g","r","a","v","e",";">>, fromCharCode(224)>>,
     <<<<"&","a","c","i","r","c",";">>, fromCharCode(226)>>,
     <<<<"&","a","u","m","l",";">>, fromCharCode(228)>>,
     <<<<"&","o","c","i","r","c",";">>, fromCharCode(244)>>,
     <<<<"&","o","u","m","l",";">>, fromCharCode(246)>>,
     <<<<"&","i","c","i","r","c",";">>, fromCharCode(238)>>,
     <<<<"&","i","u","m","l",";">>, fromCharCode(239)>>,
     <<<<"&","c","c","e","d","i","l",";">>, fromCharCode(231)>>,
     <<<<"&","n","t","i","l","d","e",";">>, fromCharCode(241)>>,
     <<<<"&","u","u","m","l",";">>, fromCharCode(252)>>,
     <<<<"&","u","c","i","r","c",";">>, fromCharCode(251)>>,
     <<<<"&","u","g","r","a","v","e",";">>, fromCharCode(249)>> >>

RECURSIVE DecodeNamed(_, _)
DecodeNamed(s, k) ==
  IF k > Len(NamedEntities) THEN s
  ELSE DecodeNamed(ReplaceAll(s, NamedEntities[k][1], <<NamedEntities[k][2]>>), k + 1)

\* rss-parser.ts decodeHTMLEntities
decodeHTMLEntities(text) ==
  DecodeNamed(
    DecodeNumeric(
      DecodeNumeric(text, <<"&","#">>, Digits, 10),
      <<"&","#","x">>, DOMAIN DigitValue, 16),
    1)

\* rss-parser.ts cleanText
cleanText(text) == decodeHTMLEntities(ReplaceNewlineRuns(trimText(text)))

\* A parseRSSFeed whose item pattern is greedy: /<item>([\s\S]*)<\/item>/g.
matchAllItems_greedy(xmlText) ==
  LET opens  == {k \in 1..Len(xmlText) : xmlText[k] = "<item>"}
      closes == {e \in 1..Len(xmlText) : xmlText[e] = "</item>"}
      pairs  == {k \in opens : \E e \in closes : e > k}
  IN  IF pairs = {} THEN <<>>
      ELSE <<SubSeq(xmlText, Min(pairs) + 1,
                    (CHOOSE e \in closes : \A f \in closes : f <= e) - 1)>>

\* parseRSSFeed, lines 57-58: [...xmlText.matchAll(/<item>([\s\S]*?)<\/item>/g)],
\* the captured groups in document order.
RECURSIVE matchAllItems(_)
matchAllItems(xmlText) ==
  LET closesAfter(k) == {e \in (k + 1)..Len(xmlText) : xmlText[e] = "</item>"}
      opens == {k \in 1..Len(xmlText) : xmlText[k] = "<item>" /\ closesAfter(k) # {}}
  IN  IF opens = {} THEN <<>>
      ELSE LET k == Min(opens)
               e == Min(closesAfter(k))
           IN  <<SubSeq(xmlText, k + 1, e - 1)>>
                 \o matchAllItems(SubSeq(xmlText, e + 1, Len(xmlText)))

\* The first match of <tag><![CDATA[(.*?)]]></tag> in xml: <<>> or
\* <<[text, next]>>, the captured group and the position after the match.
FirstCDATA(xml, tag) ==
  LET endsAfter(k) ==
        {e \in (k + 2)..(Len(xml) - 1) : xml[e] = "]]>" /\ xml[e + 1] = CloseTag(tag)}
      starts ==
        {k \in 1..(Len(xml) - 1) :
           xml[k] = OpenTag(tag) /\ xml[k + 1] = "<![CDATA[" /\ endsAfter(k) # {}}
  IN  IF starts = {} THEN <<>>
      ELSE LET k == Min(starts)
               e == Min(endsAfter(k))
           IN  <<[text |-> SubSeq(xml, k + 2, e - 1), next |-> e + 2]>>

\* The first match of <tag[^>]*>(.*?)</tag> in xml.
FirstText(xml, tag) ==
  LET endsAfter(k) == {e \in (k + 1)..Len(xml) : xml[e] = CloseTag(tag)}
      starts == {k \in 1..Len(xml) : Opens(xml[k], tag) /\ endsAfter(k) # {}}
  IN  IF starts = {} THEN <<>>
      ELSE LET k == Min(starts)
               e == Min(endsAfter(k))
           IN  <<[text |-> SubSeq(xml, k + 1, e - 1), next |-> e + 1]>>

\* rss-parser.ts extractCDATA
extractCDATA(xml, tag) ==
  IF FirstCDATA(xml, tag) = <<>> THEN <<>> ELSE FirstCDATA(xml, tag)[1].text

\* rss-parser.ts extractText
extractText(xml, tag) ==
  IF FirstText(xml, tag) = <<>> THEN <<>> ELSE FirstText(xml, tag)[1].text

RECURSIVE AllCDATA(_, _)
AllCDATA(xml, tag) ==
  IF FirstCDATA(xml, tag) = <<>> THEN <<>>
  ELSE LET m == FirstCDATA(xml, tag)[1]
       IN  <<m.text>> \o AllCDATA(SubSeq(xml, m.next, Len(xml)), tag)

RECURSIVE AllText(_, _)
AllText(xml, tag) ==
  IF FirstText(xml, tag) = <<>> THEN <<>>
  ELSE LET m == FirstText(xml, tag)[1]
       IN  <<m.text>> \o AllText(SubSeq(xml, m.next, Len(xml)), tag)

\* rss-parser.ts extractMultiple
extractMultiple(xml, tag) ==
  IF AllCDATA(xml, tag) # <<>> THEN AllCDATA(xml, tag) ELSE AllText(xml, tag)

\* A parseRSSItem that validates nothing.
parseRSSItem_lenient(itemXml) ==
  [raised |-> FALSE,
   post   |-> [title      |-> cleanText(extractCDATA(itemXml, "title")),
               link       |-> cleanText(extractText(itemXml, "link")),
               guid       |-> cleanText(extractText(itemXml, "guid")),
               pubDate    |-> cleanText(extractText(itemXml, "pubDate")),
               categories |-> [k \in DOMAIN extractMultiple(itemXml, "category") |->
                                 cleanText(extractMultiple(itemXml, "category")[k])],
               authors    |-> [k \in DOMAIN extractMultiple(itemXml, "dc:creator") |->
                                 cleanText(extractMultiple(itemXml, "dc:creator")[k])]]]

\* rss-parser.ts parseRSSItem: the post, or raised (description and content
\* only feed the prompt text and are left out of the post).
parseRSSItem(itemXml) ==
  LET title      == extractCDATA(itemXml, "title")
      link       == extractText(itemXml, "link")
      guid       == extractText(itemXml, "guid")
      pubDate    == extractText(itemXml, "pubDate")
      categories == extractMultiple(itemXml, "category")
      authors    == extractMultiple(itemXml, "dc:creator")
  IN  IF title = <<>> \/ link = <<>> \/ guid = <<>>
      THEN [raised |-> TRUE, post |-> <<>>]
      ELSE [raised |-> FALSE,
            post   |-> [title      |-> cleanText(title),
                        link       |-> cleanText(link),
                        guid       |-> cleanText(guid),
                        pubDate    |-> cleanText(pubDate),
                        categories |-> [k \in DOMAIN categories |-> cleanText(categories[k])],
                        authors    |-> [k \in DOMAIN authors |-> cleanText(authors[k])]]]

\* A slug that is always taken from the title.
generateSlugForPost_titleOnly(post) ==
  StripHyphens(ReplaceNonAlnumRuns(toLowerCase(post.title)))

\* github-publisher.ts generateSlugForPost
generateSlugForPost(post) ==
  LET urlSlug == extractSlugFromUrl(post.link)
  IN  IF urlSlug # <<>> THEN urlSlug
      ELSE StripHyphens(ReplaceNonAlnumRuns(toLowerCase(post.title)))

\* github-publisher.ts createBlogPostSummary
createBlogPostSummary(post, summary) ==
  [slug        |-> generateSlugForPost(post),
   title       |-> post.title,
   url         |-> post.link,
   publishedAt |-> post.pubDate,
   summary     |-> summary,
   authors     |-> post.authors,
   categories  |-> post.categories,
   guid        |-> post.guid]

\* ------------------------------------------------------------ feed content

Https == <<"h","t","t","p","s",":","/","/">>

\* types.ts BlogPost, as returned by the parser (description and content only
\* feed the prompt text and are left out).
BlogPost(title, link, guid) ==
  [title      |-> title,
   link       |-> link,
   guid       |-> guid,
   pubDate    |-> "2026-01-15T00:00:00Z",
   categories |-> <<"AI">>,
   authors    |-> <<"Ann">>]

\* The posts the blog has published.  PostA and PostB are different posts
\* (different guid) under the same first path segment; PostC is linked from
\* another host, so its slug comes from its title.
PostA == BlogPost(<<"A"," ","b">>, Https \o BlogHostSlash \o <<"a","/">>, "g1")

PostB == BlogPost(<<"C">>, Https \o BlogHostSlash \o <<"a","/","b">>, "g2")

PostC ==
  BlogPost(<<"X"," "," ","Y","!">>, Https \o <<"o",".","c","o","m","/","x">>, "g3")

AllPosts == {PostA, PostB, PostC}

\* The blog's posts in feed order.
Timeline == <<PostA, PostB, PostC>>

\* The items of Timeline at the positions in S, in feed order.
RECURSIVE Pick(_, _)
Pick(S, k) ==
  IF k > Len(Timeline) THEN <<>>
  ELSE IF k \in S THEN <<Timeline[k]>> \o Pick(S, k + 1) ELSE Pick(S, k + 1)

\* The feed documents the RSS endpoint can serve: the parsed items in
\* document order.
Feeds ==
  {Pick(S, 1) : S \in {T \in SUBSET (1..Len(Timeline)) : Cardinality(T) <= MaxFeedLen}}

\* ------------------------------------------------------------ KV ledger

\* kv-storage.ts getPostKey
getPostKey(guid) == <<"post:", guid>>

\* An isPostProcessed that lets the failure of kv.get escape.
isPostProcessed_rethrow(store, guid, readOk) ==
  IF readOk
  THEN [raised |-> FALSE, value |-> getPostKey(guid) \in DOMAIN store]
  ELSE [raised |-> TRUE, value |-> FALSE]

\* An isPostProcessed that takes a failed read for an entry found.
isPostProcessed_failClosed(store, guid, readOk) ==
  IF readOk
  THEN [raised |-> FALSE, value |-> getPostKey(guid) \in DOMAIN store]
  ELSE [raised |-> FALSE, value |-> TRUE]

\* An isPostProcessed that finds no entry, whatever the ledger holds.
isPostProcessed_blind(store, guid, readOk) == [raised |-> FALSE, value |-> FALSE]

\* kv-storage.ts isPostProcessed.  readOk = FALSE: kv.get raises.
isPostProcessed(store, guid, readOk) ==
  IF readOk
  THEN [raised |-> FALSE, value |-> getPostKey(guid) \in DOMAIN store]
  ELSE [raised |-> FALSE, value |-> FALSE]

\* A markPostProcessed that builds its key with another prefix than the one
\* isPostProcessed reads.
markPostProcessed_otherPrefix(store, guid, metadata, clock, putOk) ==
  LET key == <<"processed:", guid>>
      value == [processed |-> TRUE,
                timestamp |-> clock,
                title     |-> metadata.title,
                slug      |-> metadata.slug,
                url       |-> metadata.url]
  IN  IF putOk
      THEN [raised |-> FALSE,
            kv     |-> [k \in DOMAIN store \cup {key} |->
                          IF k = key THEN value ELSE store[k]]]
      ELSE [raised |-> TRUE, kv |-> store]

\* A markPostProcessed that logs the failure of kv.put and returns normally.
markPostProcessed_swallow(store, guid, metadata, clock, putOk) ==
  LET key == getPostKey(guid)
      value == [processed |-> TRUE,
                timestamp |-> clock,
                title     |-> metadata.title,
                slug      |-> metadata.slug,
                url       |-> metadata.url]
  IN  IF putOk
      THEN [raised |-> FALSE,
            kv     |-> [k \in DOMAIN store \cup {key} |->
                          IF k = key THEN value ELSE store[k]]]
      ELSE [raised |-> FALSE, kv |-> store]

\* kv-storage.ts markPostProcessed.  putOk = FALSE: kv.put raises and
\* nothing is stored.  The result tells whether the call raised and gives
\* the store after the call.
markPostProcessed(store, guid, metadata, clock, putOk) ==
  LET key == getPostKey(guid)
      value == [processed |-> TRUE,
                timestamp |-> clock,
                title     |-> metadata.title,
                slug      |-> metadata.slug,
                url       |-> metadata.url]
  IN  IF putOk
      THEN [raised |-> FALSE,
            kv     |-> [k \in DOMAIN store \cup {key} |->
                          IF k = key THEN value ELSE store[k]]]
      ELSE [raised |-> TRUE, kv |-> store]

\* A map that keeps the value a key was first set to.
mapSet_keepFirst(map, key, value) ==
  [k \in DOMAIN map \cup {key} |-> IF k \in DOMAIN map THEN map[k] ELSE value]

\* Map.prototype.set (batchCheckProcessed, line 200)
mapSet(map, key, value) ==
  [k \in DOMAIN map \cup {key} |-> IF k = key THEN value ELSE map[k]]

\* The keys a namespace can hold, in the order kv.list enumerates them
\* (lexicographic): the ledger's keys and one key of another prefix.
KeyOrder ==
  [n \in 1..(MaxKeys + 1) |->
     IF n <= MaxKeys THEN getPostKey(ToString(n)) ELSE <<"queue:", "1">>]

\* The keys of the set keys that start with prefix, in enumeration order.
RECURSIVE Listing(_, _, _)
Listing(keys, prefix, n) ==
  IF n > Len(KeyOrder) THEN <<>>
  ELSE IF KeyOrder[n] \in keys /\ KeyOrder[n][1] = prefix
       THEN <<KeyOrder[n]>> \o Listing(keys, prefix, n + 1)
       ELSE Listing(keys, prefix, n + 1)

\* KVNamespace.list({prefix, limit, cursor}): the page of `size` keys that
\* follows the cursor.  cursor = <<>>: no cursor was given.  The cursor of
\* the answer is meaningful only when list_complete is false, and raised
\* tells a call that raised from one that was answered.
kvList(keys, prefix, cursor, size, complete) ==
  LET listing == Listing(keys, prefix, 1)
      from    == IF cursor = <<>> THEN 1 ELSE cursor[1]
  IN  [raised        |-> FALSE,
       keys          |-> SubSeq(listing, from, from + size - 1),
       list_complete |-> complete,
       cursor        |-> from + size]

\* A kv.list call that raised.
Raised == [raised |-> TRUE, keys |-> <<>>, list_complete |-> FALSE, cursor |-> 0]

\* The pages kv.list can answer a request with: at most `limit` keys, at
\* least one while keys are left, and list_complete only on the page that
\* reaches the end of the listing.
Pages(keys, prefix, limit, cursor) ==
  LET listing == Listing(keys, prefix, 1)
      from    == IF cursor = <<>> THEN 1 ELSE cursor[1]
      left    == Len(listing) - from + 1
  IN  {pg \in {kvList(keys, prefix, cursor, size, complete) :
                 size \in 0..Min({left, limit}), complete \in BOOLEAN} :
         /\ pg.list_complete => pg.cursor > Len(listing)
         /\ pg.keys = <<>> => pg.list_complete}

\* getProcessedPosts, line 124: key.name.replace(/^post:/, '')
stripPostPrefix(key) == IF key[1] = "post:" THEN key[2] ELSE key[1] \o key[2]

\* A page limit that does not count what was collected.
pageLimit_whole(limit, collected) == Min({limit, KV_LIST_MAX})

\* getProcessedPosts, line 119: Math.min(limit - guids.length, 1000)
pageLimit(limit, collected) == Min({limit - collected, KV_LIST_MAX})

\* getProcessedPosts, line 127, and getProcessedPostCount, line 156:
\* cursor = result.list_complete ? undefined : result.cursor
nextCursor(result) == IF result.list_complete THEN <<>> ELSE <<result.cursor>>

\* getProcessedPosts, line 128: while (cursor && guids.length < limit)
postsLoopGoesOn(cursor, collected, limit) == cursor # <<>> /\ collected < limit

\* A count that stops after the first page.
countLoopGoesOn_firstPage(cursor) == FALSE

\* getProcessedPostCount, line 157: while (cursor)
countLoopGoesOn(cursor) == cursor # <<>>

\* ------------------------------------------------------------ summarizer

\* .replace(/<[^>]*>/g, ' '): every tag, from a "<" to the next ">", becomes
\* one space; a "<" that no ">" follows stays.
RECURSIVE StripTags(_)
StripTags(s) ==
  IF s = <<>> THEN <<>>
  ELSE LET closes == {j \in 2..Len(s) : s[j] = ">"}
       IN  IF Head(s) = "<" /\ closes # {}
           THEN LET j == CHOOSE c \in closes : \A d \in closes : c <= d
                IN  <<" ">> \o StripTags(SubSeq(s, j + 1, Len(s)))
           ELSE <<Head(s)>> \o StripTags(Tail(s))

\* .replace(/\s+/g, ' '): every run of whitespace becomes one space.
RECURSIVE CollapseWhitespace(_)
CollapseWhitespace(s) ==
  IF s = <<>> THEN <<>>
  ELSE IF Head(s) \in Whitespace
       THEN <<" ">> \o CollapseWhitespace(SkipWhitespace(s))
       ELSE <<Head(s)>> \o CollapseWhitespace(Tail(s))

\* stripHtml, lines 31-37: the entities are decoded; an entity is one
\* element of the text.
DecodeCommonEntities(s) ==
  [k \in DOMAIN s |->
     CASE s[k] = "&nbsp;" -> " "
       [] s[k] = "&amp;"  -> "&"
       [] s[k] = "&lt;"   -> "<"
       [] s[k] = "&gt;"   -> ">"
       [] OTHER           -> s[k]]

\* ai-summarizer.ts stripHtml
stripHtml(html) == trimText(DecodeCommonEntities(CollapseWhitespace(StripTags(html))))

\* String.prototype.lastIndexOf(' '), counted from 0; -1 when there is none.
lastIndexOfSpace(s) ==
  LET at == {k \in 1..Len(s) : s[k] = " "}
  IN  IF at = {} THEN -1 ELSE (CHOOSE k \in at : \A j \in at : j <= k) - 1

Ellipsis == <<".", ".", ".">>

\* A truncation that cuts at the limit wherever that is.
truncateText_hardCut(text, maxChars) ==
  IF Len(text) <= maxChars THEN text ELSE SubSeq(text, 1, maxChars) \o Ellipsis

\* ai-summarizer.ts truncateText
truncateText(text, maxChars) ==
  IF Len(text) <= maxChars THEN text
  ELSE LET truncated == SubSeq(text, 1, maxChars)
           lastSpace == lastIndexOfSpace(truncated)
       IN  IF lastSpace > 0
           THEN SubSeq(truncated, 1, lastSpace) \o Ellipsis
           ELSE truncated \o Ellipsis

\* What ai.run can produce.  A text is described by its leading whitespace,
\* its body (first to last non-whitespace character) and its trailing
\* whitespace, and by whether it has a character above U+00FF.
AIText(lead, body, trail, wide) ==
  [lead |-> lead, body |-> body, trail |-> trail, wide |-> wide]

AIResponses ==
  { [kind |-> "throw",  text |-> AIText(0, 0, 0, FALSE)],
    [kind |-> "other",  text |-> AIText(0, 0, 0, FALSE)],
    [kind |-> "object", text |-> AIText(1, 0, 1, FALSE)],
    [kind |-> "object", text |-> AIText(0, MIN_SUMMARY_LENGTH - 1, 1, FALSE)],
    [kind |-> "object", text |-> AIText(1, MIN_SUMMARY_LENGTH, 0, FALSE)],
    [kind |-> "string", text |-> AIText(0, MIN_SUMMARY_LENGTH + 1, 0, FALSE)],
    [kind |-> "object", text |-> AIText(0, MIN_SUMMARY_LENGTH, 0, TRUE)] }

\* String.prototype.trim
trim(t) == AIText(0, t.body, 0, t.wide)

length(t) == t.lead + t.body + t.trail

\* A disclaimer that is added only when it is asked for.
includeDisclaimerOf_optIn(options) == options = <<TRUE>>

\* generateSummary, line 108: const { includeDisclaimer = true } = options.
\* options is <<>> when includeDisclaimer is left out and <<b>> when it is
\* given as b.
includeDisclaimerOf(options) == IF options = <<>> THEN TRUE ELSE options[1]

\* generateSummary(env.AI, post) at line 305 of scheduled: no options.
NoOptions == <<>>

\* An attempt that measures the text before trimming it.
summaryAttempt_untrimmed(response, includeDisclaimer) ==
  IF response.kind \notin {"object", "string"}
  THEN [raised |-> TRUE, summary |-> <<>>]
  ELSE LET summary == trim(response.text)
       IN  IF length(response.text) = 0 \/ length(response.text) < MIN_SUMMARY_LENGTH
           THEN [raised |-> TRUE, summary |-> <<>>]
           ELSE [raised  |-> FALSE,
                 summary |-> [disclaimer |-> includeDisclaimer, text |-> summary]]

\* ai-summarizer.ts generateSummary, the body of one attempt: the summary
\* it returns, or raised.
summaryAttempt(response, includeDisclaimer) ==
  IF response.kind \notin {"object", "string"}
  THEN [raised |-> TRUE, summary |-> <<>>]
  ELSE LET summary == trim(response.text)
       IN  IF length(summary) = 0 \/ length(summary) < MIN_SUMMARY_LENGTH
           THEN [raised |-> TRUE, summary |-> <<>>]
           ELSE [raised  |-> FALSE,
                 summary |-> [disclaimer |-> includeDisclaimer, text |-> summary]]

\* A retry loop that goes on until an answer is acceptable.
retryAfter_untilAccepted(attempt) == TRUE

\* A retry loop that runs one attempt too many.
retryAfter_offByOne(attempt) == attempt <= MAX_RETRIES

\* ai-summarizer.ts generateSummary, the loop condition after a failed
\* attempt: is there another attempt?
retryAfter(attempt) == attempt + 1 <= MAX_RETRIES

\* ai-summarizer.ts line 10
RETRY_DELAY_MS == 1000

\* generateSummary, line 160: if (attempt < MAX_RETRIES), the condition of
\* the wait after a failed attempt.
waitsAfter(attempt) == attempt < MAX_RETRIES

\* A delay that does not grow with the attempt.
retryDelay_fixed(attempt) == RETRY_DELAY_MS

\* generateSummary, line 161: const delay = RETRY_DELAY_MS * attempt
retryDelay(attempt) == RETRY_DELAY_MS * attempt

\* The length of the fallback text of generateSummaries (lines 199-200).
FALLBACK_LENGTH == 100

\* generateSummaries, lines 199-200: the fallback text.  It is a fixed text
\* of its own, not a summary with the disclaimer of generateSummary in front.
Fallback == [disclaimer |-> FALSE, text |-> AIText(0, FALLBACK_LENGTH, 0, FALSE)]

\* A loop that leaves out the posts whose summarization failed.
pushSummary_skipFailed(summaries, outcome) ==
  IF outcome.raised THEN summaries ELSE Append(summaries, outcome.summary[1])

\* generateSummaries, lines 192-202: what the loop pushes for a post whose
\* generateSummary call returned outcome.summary or raised.
pushSummary(summaries, outcome) ==
  Append(summaries, IF outcome.raised THEN Fallback ELSE outcome.summary[1])

\* ------------------------------------------------------------ publisher

\* A storage path that depends on the summary text.
filePath_perSummary(postSummary) ==
  <<"site/content/posts/", postSummary.slug, postSummary.summary.text.body, ".json">>

\* The storage path of an artifact.
filePath(postSummary) == <<"site/content/posts/", postSummary.slug, ".json">>

\* JSON.stringify(postSummary, null, 2)
jsonStringify(postSummary) == [json |-> postSummary]

\* btoa raises on a string with a character above U+00FF.
btoaRaises(content) == content.json.summary.text.wide

\* btoa
btoa(content) == [base64 |-> content]

\* The blob sha GitHub gives a file: a hash of its content.
blobSha(base64Content) == [sha |-> base64Content]

\* A getFileSha that gets the marker of the file although its request failed.
getFileSha_anyway(files, path, net) ==
  IF path \in DOMAIN files THEN <<files[path].sha>> ELSE <<>>

\* A getFileSha that finds no file, whatever the repository holds.
getFileSha_absent(files, path, net) == <<>>

\* github-publisher.ts getFileSha.  net = "ok": the request is answered
\* (404 when the file is absent); net = "error": a non-404 error status or a
\* transport failure.  Returns <<sha>> or <<>> for null.
getFileSha(files, path, net) ==
  IF net = "ok" /\ path \in DOMAIN files THEN <<files[path].sha>> ELSE <<>>

\* A request body that never carries the marker and always says "add".
putBody_noMarker(existingSha, title, base64Content) ==
  [message |-> <<"feat: add summary for ", title>>,
   content |-> base64Content,
   branch  |-> "main",
   sha     |-> <<>>]

\* publishToGitHub, lines 124-136: the body of the PUT request.  A body
\* without the sha key has sha = <<>>.
putBody(existingSha, title, base64Content) ==
  [message |-> IF existingSha # <<>>
               THEN <<"chore: update summary for ", title>>
               ELSE <<"feat: add summary for ", title>>,
   content |-> base64Content,
   branch  |-> "main",
   sha     |-> existingSha]

\* A store in which the last writer wins, whatever marker the request has.
githubPut_lastWriterWins(files, path, sha, base64Content, net) ==
  IF net = "ok"
  THEN [ok   |-> TRUE,
        repo |-> [p \in DOMAIN files \cup {path} |->
                    IF p = path
                    THEN [sha |-> blobSha(base64Content), content |-> base64Content]
                    ELSE files[p]]]
  ELSE [ok |-> FALSE, repo |-> files]

\* The GitHub contents API answering the PUT of publishToGitHub: a create
\* needs the path to be absent, an update needs the current blob sha.
githubPut(files, path, sha, base64Content, net) ==
  LET accepted ==
        /\ net = "ok"
        /\ IF path \in DOMAIN files
           THEN sha = <<files[path].sha>>
           ELSE sha = <<>>
  IN  IF accepted
      THEN [ok   |-> TRUE,
            repo |-> [p \in DOMAIN files \cup {path} |->
                        IF p = path
                        THEN [sha |-> blobSha(base64Content), content |-> base64Content]
                        ELSE files[p]]]
      ELSE [ok |-> FALSE, repo |-> files]

\* A validation that looks at the token alone.
createGitHubConfig_tokenOnly(e) ==
  IF e.GITHUB_TOKEN # ""
  THEN <<[token |-> e.GITHUB_TOKEN, owner |-> e.GITHUB_OWNER, repo |-> e.GITHUB_REPO]>>
  ELSE <<>>

\* A publishToGitHub that takes any answer to the PUT for a success.
publishResult_unchecked(sent, answer) == sent /\ answer # "raise"

\* publishToGitHub, lines 150-162: true after a PUT answered with a success
\* status; a raised encoding, a raised request and a non-success status end
\* in the catch block, which returns false.
publishResult(sent, answer) == sent /\ answer = "2xx"

\* github-publisher.ts validateGitHubConfig / createGitHubConfig
createGitHubConfig(e) ==
  IF e.GITHUB_TOKEN # "" /\ e.GITHUB_OWNER # "" /\ e.GITHUB_REPO # ""
  THEN <<[token |-> e.GITHUB_TOKEN, owner |-> e.GITHUB_OWNER, repo |-> e.GITHUB_REPO]>>
  ELSE <<>>

\* ai-summarizer.ts isAIAvailable
isAIAvailable(e) == e.AI

\* A worker that takes the ledger binding for granted.
hasLedger_assumed(e) == TRUE

\* scheduled, lines 270 and 319: `if (env.PROCESSED_POSTS)`.
hasLedger(e) == e.PROCESSED_POSTS

\* The sequence in the opposite order.
Reverse(q) == [j \in 1..Len(q) |-> q[Len(q) + 1 - j]]

\* A fetchBlogPosts that returns the newest-last document newest-first.
fetchBlogPosts_reversed(status, doc, maxPosts) ==
  IF status # "ok" THEN [raised |-> TRUE, posts |-> <<>>]
  ELSE [raised |-> FALSE,
        posts  |-> IF maxPosts # 0 /\ maxPosts < Len(doc)
                   THEN SubSeq(Reverse(doc), 1, maxPosts) ELSE Reverse(doc)]

\* A fetchBlogPosts that logs a failed retrieval and returns no post.
fetchBlogPosts_swallow(status, doc, maxPosts) ==
  IF status # "ok" THEN [raised |-> FALSE, posts |-> <<>>]
  ELSE [raised |-> FALSE,
        posts  |-> IF maxPosts # 0 /\ maxPosts < Len(doc)
                   THEN SubSeq(doc, 1, maxPosts) ELSE doc]

\* rss-parser.ts fetchBlogPosts.  status = "ok": a 2xx answer carrying doc;
\* "non2xx" and "transport" raise.
fetchBlogPosts(status, doc, maxPosts) ==
  IF status # "ok" THEN [raised |-> TRUE, posts |-> <<>>]
  ELSE [raised |-> FALSE,
        posts  |-> IF maxPosts # 0 /\ maxPosts < Len(doc)
                   THEN SubSeq(doc, 1, maxPosts) ELSE doc]

\* ------------------------------------------------------------ environment

\* types.ts Env.  POSTS_TO_FETCH is held as parseInt gives it, 0 standing
\* for every value the code treats as "no limit" (0, NaN).
Envs ==
  [AI              : BOOLEAN,
   PROCESSED_POSTS : BOOLEAN,
   GITHUB_TOKEN    : {"", "t"},
   GITHUB_OWNER    : {"", "o"},
   GITHUB_REPO     : {"", "r"},
   POSTS_TO_FETCH  : {0, 1}]

\* ------------------------------------------------------------------ state

VARIABLES
  env,           \* the worker's bindings and variables
  kv,            \* the PROCESSED_POSTS namespace: key -> value
  repo,          \* the GitHub repository: path -> [sha, content]
  run,           \* number of scheduled invocations so far (also the clock)
  pc,            \* where the current invocation of scheduled is
  feed,          \* the document the feed endpoint served to this run
  posts,         \* scheduled: posts
  fIdx,          \* scheduled: position of the filtering loop in posts
  kvAnswer,      \* the answer of kv.get the filtering loop is awaiting
  newPosts,      \* scheduled: newPosts
  i,             \* scheduled: loop index of the processing loop (1-based)
  attempt,       \* generateSummary: attempt
  response,      \* the answer of ai.run generateSummary is awaiting
  summary,       \* scheduled: <<summary>> once generateSummary returned
  existingSha,   \* publishToGitHub: existingSha
  successCount,  \* scheduled: successCount
  failureCount,  \* scheduled: failureCount
  \* ---- observations of the run, read by the properties only
  fetchStatus,   \* what the feed request of this run met
  readFailed,    \* some kv.get of this run raised
  aiCalls,       \* ai.run requests of the latest generateSummary call
  sumCalls,      \* generateSummary calls of this run
  pubCalls,      \* publishToGitHub calls of this run
  putSent,       \* PUT requests sent by the latest publishToGitHub call
  kvWrites,      \* kv.put requests issued by this run
  pubOk,         \* positions in newPosts whose publish returned true
  markCalled,    \* positions in newPosts for which markPostProcessed ran
  faults,        \* per handled record, what the outside did to it
  outcomes,      \* per handled record, how the processing loop left it
  prevRun        \* <<feed>> of the previous run if it returned without failure

runVars == <<pc, feed, posts, fIdx, kvAnswer, newPosts, i, attempt, response,
             summary, existingSha, successCount, failureCount>>

obsVars == <<fetchStatus, readFailed, aiCalls, sumCalls, pubCalls, putSent,
             kvWrites, pubOk, markCalled, faults, outcomes, prevRun>>

\* The state of one publishToGitHub call followed on its own, with the
\* repository open to other writers.
VARIABLES
  ghFiles,        \* the repository the call talks to: path -> [sha, content]
  pubPc,          \* where the call is
  pubArtifact,    \* publishToGitHub: postSummary
  pubExistingSha, \* publishToGitHub: existingSha
  pubRequests,    \* the bodies of the PUT requests the call has sent
  pubReturn,      \* <<value>> once the call returned
  \* ---- observations of the call, read by the properties only
  pubReadNet,     \* what the request of getFileSha met
  pubAtRead,      \* <<file>> at the path when getFileSha was answered
  pubAnswer,      \* what the PUT request met
  pubCallNo,      \* calls made so far
  pubEdits        \* writes of other writers during this call

pubVars == <<ghFiles, pubPc, pubArtifact, pubExistingSha, pubRequests, pubReturn,
             pubReadNet, pubAtRead, pubAnswer, pubCallNo, pubEdits>>

\* The state of one fetchBlogPosts call followed on its own.
VARIABLES
  xmlText,        \* fetchBlogPosts: xmlText, the document the endpoint serves
  maxPosts,       \* fetchBlogPosts: options.maxPosts
  fbpPc,          \* where the call is
  items,          \* parseRSSFeed: items
  itemIdx,        \* parseRSSFeed: position of the loop in items
  parsed,         \* parseRSSFeed: posts
  fbpReturn,      \* <<posts>> once fetchBlogPosts returned
  \* ---- observations of the call, read by the properties only
  feedItems       \* the items the document was written from

parseVars == <<xmlText, maxPosts, fbpPc, items, itemIdx, parsed, fbpReturn, feedItems>>

\* The state of the slug functions called on their own.
VARIABLES
  slugFn,         \* the function called: "generateSlug" or "extractSlugFromUrl"
  slugArg,        \* its argument: the title or the url
  slugCalls,      \* what the calls made so far on slugArg returned
  slugOfSlug      \* <<generateSlug(slug)>> once the returned slug was fed back

slugVars == <<slugFn, slugArg, slugCalls, slugOfSlug>>

\* The state of one ledger listing (getProcessedPostCount or
\* getProcessedPosts) followed on its own.
VARIABLES
  lstFn,          \* the function called
  lstKeys,        \* the keys of the namespace
  lstLimit,       \* getProcessedPosts: limit
  lstPc,          \* where the call is
  lstCursor,      \* cursor
  lstCount,       \* getProcessedPostCount: count
  lstGuids,       \* getProcessedPosts: guids
  lstResult,      \* <<result>>: the latest answer of kv.list
  lstReturn,      \* <<value>> once the call returned
  \* ---- observations of the call, read by the properties only
  lstRequests     \* the limits of the kv.list requests issued so far

listVars == <<lstFn, lstKeys, lstLimit, lstPc, lstCursor, lstCount, lstGuids,
              lstResult, lstReturn, lstRequests>>

\* The state of one batchCheckProcessed call followed on its own.
VARIABLES
  bchKv,          \* the namespace: key -> value
  bchGuids,       \* guids
  bchPc,          \* where the call is
  bchPending,     \* the positions in guids whose kv.get is awaited
  bchResults,     \* results
  \* ---- observations of the call, read by the properties only
  bchReads,       \* per position, <<value>> once its isPostProcessed returned
  bchFailed,      \* the positions whose kv.get raised
  bchOrder        \* the positions in the order their reads completed

batchVars == <<bchKv, bchGuids, bchPc, bchPending, bchResults, bchReads,
               bchFailed, bchOrder>>

\* The state of the invocations of scheduled when the cron trigger may fire
\* while an earlier invocation is still in progress.
VARIABLES
  sharedFeed,     \* the document the feed endpoint serves to every invocation
  sharedKv,       \* the PROCESSED_POSTS namespace: key -> value
  sharedRepo,     \* the GitHub repository: path -> [sha, content]
  invs            \* per invocation, its local state and what was observed of it

invsVars == <<sharedFeed, sharedKv, sharedRepo, invs>>

VARIABLES
  genPc,          \* where the call of generateSummary is
  genOptions,     \* generateSummary: options.includeDisclaimer as given
  genDisclaimer,  \* generateSummary: includeDisclaimer
  genAttempt,     \* generateSummary: attempt
  genResponse,    \* the answer of ai.run the call is awaiting
  genReturn,      \* <<summary>> once generateSummary returned
  \* ---- observations of the call, read by the properties only
  genAnswers,     \* the answers ai.run gave to the call, in order
  genTimers       \* the delays of the timers the call has set, in order

genVars == <<genPc, genOptions, genDisclaimer, genAttempt, genResponse, genReturn,
             genAnswers, genTimers>>

VARIABLES
  prContent,      \* getUserPrompt: post.content
  prLimit,        \* truncateText: maxChars
  prPc,           \* where the call of getUserPrompt is
  prText,         \* getUserPrompt: plainTextContent
  prResult        \* getUserPrompt: <<truncatedContent>> once truncateText returned

promptVars == <<prContent, prLimit, prPc, prText, prResult>>

VARIABLES
  gsPosts,        \* generateSummaries: posts
  gsOptions,      \* generateSummaries: options.includeDisclaimer as given
  gsPc,           \* where the call of generateSummaries is
  gsIdx,          \* generateSummaries: position of the loop in posts
  gsSummaries,    \* generateSummaries: summaries
  gsReturn,       \* <<summaries>> once generateSummaries returned
  \* ---- observations of the call, read by the properties only
  gsCalledFor,    \* the posts generateSummary was called for, in order
  gsOutcomes      \* how each of those calls ended, in order

sumsVars == <<gsPosts, gsOptions, gsPc, gsIdx, gsSummaries, gsReturn,
              gsCalledFor, gsOutcomes>>

VARIABLES
  hPath,          \* fetch: url.pathname
  hPc,            \* where the fetch handler is
  hPost,          \* fetch: <<post>>, the post the endpoint works with
  hSummary,       \* fetch: <<summary>> once generateSummary returned
  hResponse       \* <<response>> once the handler returned

httpVars == <<hPath, hPc, hPost, hSummary, hResponse>>

\* The state of the other functions that are followed on their own.
extraVars == <<promptVars, sumsVars, httpVars>>

\* The state of the utility functions that are followed on their own.
sideVars == <<slugVars, listVars, batchVars, invsVars, genVars, extraVars>>

\* The state of the functions that are followed on their own.
unitVars == <<pubVars, parseVars, sideVars>>

schedVars == <<env, kv, repo, run, runVars, obsVars>>

vars == <<schedVars, unitVars>>

NoAnswer == [kind |-> "none"]

\* No publishToGitHub call is followed on its own.
PublishIdle ==
  /\ ghFiles = << >>
  /\ pubPc = "idle"
  /\ pubArtifact = <<>>
  /\ pubExistingSha = <<>>
  /\ pubRequests = <<>>
  /\ pubReturn = <<>>
  /\ pubReadNet = "none"
  /\ pubAtRead = <<>>
  /\ pubAnswer = "none"
  /\ pubCallNo = 0
  /\ pubEdits = 0

\* No fetchBlogPosts call is followed on its own.
ParseIdle ==
  /\ xmlText = <<>>
  /\ maxPosts = 0
  /\ fbpPc = "idle"
  /\ items = <<>>
  /\ itemIdx = 1
  /\ parsed = <<>>
  /\ fbpReturn = <<>>
  /\ feedItems = <<>>

\* No slug function is called on its own.
SlugIdle ==
  /\ slugFn = "none"
  /\ slugArg = <<>>
  /\ slugCalls = <<>>
  /\ slugOfSlug = <<>>

\* No ledger listing is followed on its own.
ListIdle ==
  /\ lstFn = "none"
  /\ lstKeys = {}
  /\ lstLimit = 0
  /\ lstPc = "idle"
  /\ lstCursor = <<>>
  /\ lstCount = 0
  /\ lstGuids = <<>>
  /\ lstResult = <<>>
  /\ lstReturn = <<>>
  /\ lstRequests = <<>>

\* No batchCheckProcessed call is followed on its own.
BatchIdle ==
  /\ bchKv = << >>
  /\ bchGuids = <<>>
  /\ bchPc = "idle"
  /\ bchPending = {}
  /\ bchResults = << >>
  /\ bchReads = <<>>
  /\ bchFailed = {}
  /\ bchOrder = <<>>

\* No overlapping invocation is followed.
InvsIdle ==
  /\ sharedFeed = <<>>
  /\ sharedKv = << >>
  /\ sharedRepo = << >>
  /\ invs = <<>>

\* generateSummary is not followed on its own.
GenIdle ==
  /\ genPc = "idle"
  /\ genOptions = <<>>
  /\ genDisclaimer = TRUE
  /\ genAttempt = 0
  /\ genResponse = [kind |-> "none"]
  /\ genReturn = <<>>
  /\ genAnswers = <<>>
  /\ genTimers = <<>>

\* getUserPrompt is not followed on its own.
PromptIdle ==
  /\ prContent = <<>>
  /\ prLimit = 0
  /\ prPc = "idle"
  /\ prText = <<>>
  /\ prResult = <<>>

\* generateSummaries is not followed on its own.
SumsIdle ==
  /\ gsPosts = <<>>
  /\ gsOptions = <<>>
  /\ gsPc = "idle"
  /\ gsIdx = 0
  /\ gsSummaries = <<>>
  /\ gsReturn = <<>>
  /\ gsCalledFor = <<>>
  /\ gsOutcomes = <<>>

\* The fetch handler is not followed.
HttpIdle ==
  /\ hPath = ""
  /\ hPc = "idle"
  /\ hPost = <<>>
  /\ hSummary = <<>>
  /\ hResponse = <<>>

ExtraIdle == PromptIdle /\ SumsIdle /\ HttpIdle

\* No utility function is followed on its own.
SideIdle == SlugIdle /\ ListIdle /\ BatchIdle /\ InvsIdle /\ GenIdle /\ ExtraIdle

\* scheduled has not been invoked yet.
ScheduledIdle ==
  /\ kv = << >>
  /\ repo = << >>
  /\ run = 0
  /\ pc = "idle"
  /\ feed = <<>>
  /\ posts = <<>>
  /\ fIdx = 1
  /\ kvAnswer = "none"
  /\ newPosts = <<>>
  /\ i = 1
  /\ attempt = 1
  /\ response = NoAnswer
  /\ summary = <<>>
  /\ existingSha = <<>>
  /\ successCount = 0
  /\ failureCount = 0
  /\ fetchStatus = "none"
  /\ readFailed = FALSE
  /\ aiCalls = 0
  /\ sumCalls = 0
  /\ pubCalls = 0
  /\ putSent = 0
  /\ kvWrites = 0
  /\ pubOk = {}
  /\ markCalled = {}
  /\ faults = <<>>
  /\ outcomes = <<>>
  /\ prevRun = <<>>

Init ==
  /\ env \in Envs
  /\ ScheduledIdle
  /\ PublishIdle
  /\ ParseIdle
  /\ SideIdle

\* ---------------------------------------------------------------- scheduled

\* scheduled, lines 248-257: the bindings are validated before anything is
\* fetched.
preconditionsHold(e) == isAIAvailable(e) /\ createGitHubConfig(e) # <<>>

\* scheduled is invoked by the cron trigger; the previous invocation is over.
StartRun ==
  /\ UNCHANGED unitVars
  /\ pc \in {"idle", "done", "fatal"}
  /\ run < MaxRuns
  /\ run' = run + 1
  /\ pc' = IF preconditionsHold(env) THEN "fetch" ELSE "fatal"
  /\ feed' = <<>>
  /\ posts' = <<>>
  /\ fIdx' = 1
  /\ kvAnswer' = "none"
  /\ newPosts' = <<>>
  /\ i' = 1
  /\ attempt' = 1
  /\ response' = NoAnswer
  /\ summary' = <<>>
  /\ existingSha' = <<>>
  /\ successCount' = 0
  /\ failureCount' = 0
  /\ fetchStatus' = "none"
  /\ readFailed' = FALSE
  /\ aiCalls' = 0
  /\ sumCalls' = 0
  /\ pubCalls' = 0
  /\ putSent' = 0
  /\ kvWrites' = 0
  /\ pubOk' = {}
  /\ markCalled' = {}
  /\ faults' = <<>>
  /\ outcomes' = <<>>
  /\ prevRun' = IF pc = "done" /\ failureCount = 0 THEN <<feed>> ELSE <<>>
  /\ UNCHANGED <<env, kv, repo>>

\* scheduled, lines 286-298: with no new post the run returns, otherwise the
\* processing loop starts at the first new post.
afterFiltering(np) == IF np = <<>> THEN "done" ELSE "summarize"

\* scheduled, lines 259-284: the feed is fetched; without the KV binding
\* every post is new.
Fetch ==
  /\ UNCHANGED unitVars
  /\ pc = "fetch"
  /\ \E status \in {"ok", "non2xx", "transport"}, doc \in Feeds :
       LET r == fetchBlogPosts(status, doc, env.POSTS_TO_FETCH)
       IN  /\ status # "ok" => doc = <<>>
           /\ fetchStatus' = status
           /\ feed' = IF status = "ok" THEN doc ELSE <<>>
           /\ IF r.raised
              THEN /\ pc' = "fatal"
                   /\ UNCHANGED <<posts, newPosts>>
              ELSE /\ posts' = r.posts
                   /\ IF hasLedger(env)
                      THEN /\ pc' = "count"
                           /\ UNCHANGED newPosts
                      ELSE /\ newPosts' = r.posts
                           /\ pc' = afterFiltering(r.posts)
  /\ UNCHANGED <<env, kv, repo, run, fIdx, kvAnswer, i, attempt, response,
                 summary, existingSha, successCount, failureCount, readFailed,
                 aiCalls, sumCalls, pubCalls, putSent, kvWrites, pubOk,
                 markCalled, faults, outcomes, prevRun>>

\* scheduled, lines 271-274: getProcessedPostCount is awaited and logged; it
\* returns 0 when the listing raises, so the run goes on either way.
Count ==
  /\ UNCHANGED unitVars
  /\ pc = "count"
  /\ pc' = IF posts = <<>> THEN afterFiltering(<<>>) ELSE "filter"
  /\ UNCHANGED <<env, kv, repo, run, feed, posts, fIdx, kvAnswer, newPosts, i,
                 attempt, response, summary, existingSha, successCount,
                 failureCount, obsVars>>

\* isPostProcessed, line 35, called at line 276: kv.get is awaited; the
\* store answers or raises.
KvGet ==
  /\ UNCHANGED unitVars
  /\ pc = "filter"
  /\ \E readOk \in BOOLEAN :
       /\ kvAnswer' = IF readOk THEN "value" ELSE "raise"
       /\ readFailed' = (readFailed \/ ~readOk)
  /\ pc' = "filtered"
  /\ UNCHANGED <<env, kv, repo, run, feed, posts, fIdx, newPosts, i, attempt,
                 response, summary, existingSha, successCount, failureCount,
                 fetchStatus, aiCalls, sumCalls, pubCalls, putSent, kvWrites,
                 pubOk, markCalled, faults, outcomes, prevRun>>

\* scheduled, lines 275-280: one turn of the filtering loop, from the answer
\* of kv.get on.
Filter ==
  /\ UNCHANGED unitVars
  /\ pc = "filtered"
  /\ LET r  == isPostProcessed(kv, posts[fIdx].guid, kvAnswer = "value")
         np == IF r.value THEN newPosts ELSE Append(newPosts, posts[fIdx])
     IN  IF r.raised
         THEN /\ pc' = "fatal"
              /\ UNCHANGED <<newPosts, fIdx>>
         ELSE /\ newPosts' = np
              /\ IF fIdx < Len(posts)
                 THEN fIdx' = fIdx + 1 /\ pc' = "filter"
                 ELSE fIdx' = fIdx /\ pc' = afterFiltering(np)
  /\ kvAnswer' = "none"
  /\ UNCHANGED <<env, kv, repo, run, feed, posts, i, attempt, response, summary,
                 existingSha, successCount, failureCount, obsVars>>

\* A processing loop whose catch block rethrows to the outer handler.
afterRecord_rethrow(failed, idx, n) ==
  IF failed THEN "fatal" ELSE IF idx < n THEN "summarize" ELSE "done"

\* A processing loop that stops at the first failed record.
afterRecord_stopOnFailure(failed, idx, n) ==
  IF failed THEN "done" ELSE IF idx < n THEN "summarize" ELSE "done"

\* scheduled, lines 298 and 329-337: where the loop goes once record idx of n
\* is finished; a failed record is caught, counted and the loop continues.
afterRecord(failed, idx, n) == IF idx < n THEN "summarize" ELSE "done"

\* A catch block that logs the failed record and does not count it.
countFailure_logOnly(count, failed) == count

\* scheduled, lines 331-332: the catch block of the loop body counts the
\* record as failed.
countFailure(count, failed) == IF failed THEN count + 1 ELSE count

\* The end of one turn of the processing loop: the success branch (line 329)
\* or the catch block (lines 331-336).
RecordEnd(failed, outcome, fault) ==
  /\ successCount' = IF failed THEN successCount ELSE successCount + 1
  /\ failureCount' = countFailure(failureCount, failed)
  /\ outcomes' = Append(outcomes, outcome)
  /\ faults' = Append(faults, fault)
  /\ pc' = afterRecord(failed, i, Len(newPosts))
  /\ i' = IF afterRecord(failed, i, Len(newPosts)) = "summarize" THEN i + 1 ELSE i
  /\ attempt' = 1
  /\ summary' = <<>>
  /\ existingSha' = <<>>

\* generateSummary, line 122, called at line 305: ai.run is awaited; the
\* backend answers or raises.
AiRun ==
  /\ UNCHANGED unitVars
  /\ pc = "summarize"
  /\ response' \in AIResponses
  /\ aiCalls' = IF attempt = 1 THEN 1 ELSE aiCalls + 1
  /\ sumCalls' = IF attempt = 1 THEN sumCalls + 1 ELSE sumCalls
  /\ pc' = "answered"
  /\ UNCHANGED <<env, kv, repo, run, feed, posts, fIdx, kvAnswer, newPosts, i,
                 attempt, summary, existingSha, successCount, failureCount,
                 fetchStatus, readFailed, pubCalls, putSent, kvWrites, pubOk,
                 markCalled, faults, outcomes, prevRun>>

\* generateSummary, lines 128-172: what one attempt does with the answer:
\* return the summary, retry after the backoff, or raise to scheduled.
Summarize ==
  /\ UNCHANGED unitVars
  /\ pc = "answered"
  /\ LET r == summaryAttempt(response, includeDisclaimerOf(NoOptions))
     IN  IF ~r.raised
         THEN /\ summary' = <<r.summary>>
              /\ pc' = "getsha"
              /\ UNCHANGED <<i, attempt, existingSha, successCount,
                             failureCount, outcomes, faults>>
         ELSE IF retryAfter(attempt)
         THEN /\ attempt' = attempt + 1
              /\ pc' = "summarize"
              /\ UNCHANGED <<i, summary, existingSha, successCount,
                             failureCount, outcomes, faults>>
         ELSE RecordEnd(TRUE, "summarize", "ai")
  /\ response' = NoAnswer
  /\ UNCHANGED <<env, kv, repo, run, feed, posts, fIdx, kvAnswer, newPosts,
                 fetchStatus, readFailed, aiCalls, sumCalls, pubCalls, putSent,
                 kvWrites, pubOk, markCalled, prevRun>>

\* The artifact of the record being processed (line 310).
postSummary == createBlogPostSummary(newPosts[i], summary[1])

\* publishToGitHub, lines 110-117, called at line 311: the revision marker
\* of the path is read.
GetSha ==
  /\ UNCHANGED unitVars
  /\ pc = "getsha"
  /\ \E net \in {"ok", "error"} :
       existingSha' = getFileSha(repo, filePath(postSummary), net)
  /\ pubCalls' = pubCalls + 1
  /\ putSent' = 0
  /\ pc' = "put"
  /\ UNCHANGED <<env, kv, repo, run, feed, posts, fIdx, kvAnswer, newPosts, i,
                 attempt, response, summary, successCount, failureCount,
                 fetchStatus, readFailed, aiCalls, sumCalls, kvWrites, pubOk,
                 markCalled, faults, outcomes, prevRun>>

\* A scheduled that does not look at what publishToGitHub returned.
publishedGoesOn_unchecked(published) == TRUE

\* scheduled, lines 313-315: only a publish that returned true goes on to
\* the ledger.
publishedGoesOn(published) == published

\* publishToGitHub, lines 119-162: the content is encoded and one PUT is
\* sent; then scheduled, lines 313-329.
Put ==
  /\ UNCHANGED unitVars
  /\ pc = "put"
  /\ LET content == jsonStringify(postSummary)
         path    == filePath(postSummary)
     IN  \E net \in {"ok", "fail"} :
           LET sent      == ~btoaRaises(content)
               body      == putBody(existingSha, postSummary.title, btoa(content))
               r         == IF sent
                            THEN githubPut(repo, path, body.sha, body.content, net)
                            ELSE [ok |-> FALSE, repo |-> repo]
               published == r.ok
           IN  /\ ~sent => net = "fail"
               /\ repo' = r.repo
               /\ putSent' = IF sent THEN putSent + 1 ELSE putSent
               /\ pubOk' = IF published THEN pubOk \cup {i} ELSE pubOk
               /\ IF ~publishedGoesOn(published)
                  THEN RecordEnd(TRUE, "publish", "github")
                  ELSE IF hasLedger(env)
                  THEN /\ pc' = "mark"
                       /\ UNCHANGED <<i, attempt, summary, existingSha,
                                      successCount, failureCount, outcomes, faults>>
                  ELSE RecordEnd(FALSE, "ok", IF published THEN "none" ELSE "github")
  /\ UNCHANGED <<env, kv, run, feed, posts, fIdx, kvAnswer, newPosts, response,
                 fetchStatus, readFailed, aiCalls, sumCalls, pubCalls, kvWrites,
                 markCalled, prevRun>>

\* scheduled, lines 319-329: the record is marked processed.
Mark ==
  /\ UNCHANGED unitVars
  /\ pc = "mark"
  /\ LET post == newPosts[i]
         meta == [title |-> post.title, slug |-> postSummary.slug, url |-> post.link]
     IN  \E putOk \in BOOLEAN :
           LET r == markPostProcessed(kv, post.guid, meta, run, putOk)
               fault == IF ~putOk THEN "kv"
                        ELSE IF i \in pubOk THEN "none" ELSE "github"
           IN  /\ kv' = r.kv
               /\ kvWrites' = kvWrites + 1
               /\ markCalled' = markCalled \cup {i}
               /\ IF r.raised
                  THEN RecordEnd(TRUE, "mark", fault)
                  ELSE RecordEnd(FALSE, "ok", fault)
  /\ UNCHANGED <<env, repo, run, feed, posts, fIdx, kvAnswer, newPosts,
                 response, fetchStatus, readFailed, aiCalls, sumCalls, pubCalls,
                 putSent, pubOk, prevRun>>

Next ==
  \/ StartRun \/ Fetch \/ Count \/ KvGet \/ Filter
  \/ AiRun \/ Summarize \/ GetSha \/ Put \/ Mark

Spec == Init /\ [][Next]_vars

\* The positions of an invocation of scheduled.
Positions ==
  {"idle", "fetch", "count", "filter", "filtered", "summarize", "answered",
   "getsha", "put", "mark", "done", "fatal"}

\* The positions at which scheduled awaits a network call (the feed, the
\* ledger, the generative backend, the content store) or runs code of the
\* worker between two calls.
Underway == Positions \ {"idle", "done", "fatal"}

\* The invocation leaves the position it is at: the call it awaits returns
\* or fails, or the code it is at runs.  Every step of an invocation under
\* way is such a step, and one is possible at every position of Underway.
MovesOn == pc \in Underway /\ pc' \in Positions \ {pc}

\* The longest feed a run of SpecFair is served.
FairFeedLen == 2

\* Fetch with a feed of at most FairFeedLen records.
FetchFair == Fetch /\ Len(feed') <= FairFeedLen

NextFair ==
  \/ StartRun \/ FetchFair \/ Count \/ KvGet \/ Filter
  \/ AiRun \/ Summarize \/ GetSha \/ Put \/ Mark

\* scheduled when every network call returns or fails in the end: an
\* invocation does not stay at one position for ever.  Nothing is assumed
\* about when the cron trigger invokes scheduled again.
SpecFair == Init /\ [][NextFair]_vars /\ WF_pc(MovesOn)

\* ---------------------------------------------- publishToGitHub on its own

\* The summaries publishToGitHub is given: two texts, and one with a
\* character above U+00FF.
PubSummaries ==
  { [disclaimer |-> TRUE, text |-> AIText(0, MIN_SUMMARY_LENGTH, 0, FALSE)],
    [disclaimer |-> TRUE, text |-> AIText(0, MIN_SUMMARY_LENGTH + 1, 0, FALSE)],
    [disclaimer |-> TRUE, text |-> AIText(0, MIN_SUMMARY_LENGTH, 0, TRUE)] }

\* The artifacts publishToGitHub is called with.
Artifacts == {createBlogPostSummary(p, t) : p \in {PostA, PostC}, t \in PubSummaries}

\* What another writer of the repository puts at a path: a hand-edited
\* artifact, in two versions.
ExternalContents ==
  { btoa(jsonStringify(createBlogPostSummary(PostA, [disclaimer |-> FALSE, text |-> t]))) :
      t \in {AIText(0, 1, 0, FALSE), AIText(0, 2, 0, FALSE)} }

\* <<file>> at the path, <<>> when there is none.
FileAt(files, path) == IF path \in DOMAIN files THEN <<files[path]>> ELSE <<>>

InitPublish ==
  /\ env = [AI |-> TRUE, PROCESSED_POSTS |-> FALSE, GITHUB_TOKEN |-> "t",
            GITHUB_OWNER |-> "o", GITHUB_REPO |-> "r", POSTS_TO_FETCH |-> 0]
  /\ ScheduledIdle
  /\ PublishIdle
  /\ ParseIdle
  /\ SideIdle

\* publishToGitHub is called (lines 106-114).
PubCall ==
  /\ pubPc \in {"idle", "returned"}
  /\ pubCallNo < MaxCalls
  /\ pubCallNo' = pubCallNo + 1
  /\ \E a \in Artifacts : pubArtifact' = <<a>>
  /\ pubPc' = "getsha"
  /\ pubExistingSha' = <<>>
  /\ pubRequests' = <<>>
  /\ pubReturn' = <<>>
  /\ pubReadNet' = "none"
  /\ pubAtRead' = <<>>
  /\ pubAnswer' = "none"
  /\ pubEdits' = 0
  /\ UNCHANGED <<ghFiles, schedVars, parseVars, sideVars>>

\* publishToGitHub, lines 116-117, and getFileSha: the marker of the path is
\* read.  The request is answered (200 or 404), is answered with another
\* status, or raises.
PubGetSha ==
  /\ pubPc = "getsha"
  /\ \E net \in {"ok", "status", "raise"} :
       /\ pubExistingSha' = getFileSha(ghFiles, filePath(pubArtifact[1]), net)
       /\ pubReadNet' = net
  /\ pubAtRead' = FileAt(ghFiles, filePath(pubArtifact[1]))
  /\ pubPc' = "put"
  /\ UNCHANGED <<ghFiles, pubArtifact, pubRequests, pubReturn, pubAnswer,
                 pubCallNo, pubEdits, schedVars, parseVars, sideVars>>

\* Another writer creates or changes the file at the path of the call while
\* the call is under way.
ExternalEdit ==
  /\ pubPc \in {"getsha", "put"}
  /\ pubEdits < MaxEdits
  /\ pubEdits' = pubEdits + 1
  /\ LET path == filePath(pubArtifact[1])
     IN  \E c \in ExternalContents :
           /\ FileAt(ghFiles, path) # <<[sha |-> blobSha(c), content |-> c]>>
           /\ ghFiles' = [p \in DOMAIN ghFiles \cup {path} |->
                            IF p = path THEN [sha |-> blobSha(c), content |-> c]
                            ELSE ghFiles[p]]
  /\ UNCHANGED <<pubPc, pubArtifact, pubExistingSha, pubRequests, pubReturn,
                 pubReadNet, pubAtRead, pubAnswer, pubCallNo, schedVars, parseVars, sideVars>>

\* publishToGitHub, lines 119-162: the artifact is encoded, one PUT is sent
\* and the call returns.  The PUT is answered by the store ("ok"), answered
\* with a non-success status whatever it carries ("fail"), raises before it
\* reaches the store ("raise"), or raises after the store has handled it
\* ("lost").
PubPut ==
  /\ pubPc = "put"
  /\ LET a       == pubArtifact[1]
         content == jsonStringify(a)
         path    == filePath(a)
         sent    == ~btoaRaises(content)
         body    == putBody(pubExistingSha, a.title, btoa(content))
     IN  \E net \in {"ok", "fail", "raise", "lost"} :
           LET r      == githubPut(ghFiles, path, body.sha, body.content,
                                   IF net \in {"ok", "lost"} THEN "ok" ELSE "fail")
               answer == IF ~sent THEN "none"
                         ELSE IF net \in {"raise", "lost"} THEN "raise"
                         ELSE IF r.ok THEN "2xx" ELSE "non2xx"
           IN  /\ ~sent => net = "raise"
               /\ ghFiles' = IF sent THEN r.repo ELSE ghFiles
               /\ pubRequests' = IF sent THEN Append(pubRequests, body) ELSE pubRequests
               /\ pubAnswer' = answer
               /\ pubReturn' = <<publishResult(sent, answer)>>
  /\ pubPc' = "returned"
  /\ UNCHANGED <<pubArtifact, pubExistingSha, pubReadNet, pubAtRead, pubCallNo,
                 pubEdits, schedVars, parseVars, sideVars>>

NextPublish == PubCall \/ PubGetSha \/ ExternalEdit \/ PubPut

SpecPublish == InitPublish /\ [][NextPublish]_vars

\* ----------------------------------------------- fetchBlogPosts on its own

\* One field of an item as the feed writes it: in a CDATA section, as the
\* plain text of the tag, as the plain text of a tag with an attribute, or
\* not at all.
Field(form, text) == [form |-> form, text |-> text]

\* An item of a feed document: how its fields are written, the other tags
\* it has, and the title, link and guid a reader of the feed takes from it.
FeedItem(title, link, guid, extra, expect) ==
  [title |-> title, link |-> link, guid |-> guid, extra |-> extra, expect |-> expect]

\* The items the feed documents of the model are written from.  The first
\* two are what the blog serves; the others lack a link, have a title
\* outside CDATA, have an empty guid, and have a title of one space.
FeedItemKinds ==
  { FeedItem(Field("cdata", <<" ","A","\n"," ","b">>), Field("plain", <<"u","1">>),
             Field("attr", <<"g","1">>),
             <<"<pubDate>","d","</pubDate>",
               "<category>","<![CDATA[","x","]]>","</category>",
               "<category>","<![CDATA[","y","]]>","</category>",
               "<dc:creator>","n","</dc:creator>">>,
             [title |-> <<"A"," ","b">>, link |-> <<"u","1">>, guid |-> <<"g","1">>]),
    FeedItem(Field("cdata", <<"C","&","a","m","p",";","D">>), Field("plain", <<"u","2">>),
             Field("plain", <<"g","2">>), <<>>,
             [title |-> <<"C","&","D">>, link |-> <<"u","2">>, guid |-> <<"g","2">>]),
    FeedItem(Field("cdata", <<"E">>), Field("absent", <<>>),
             Field("attr", <<"g","3">>), <<>>,
             [title |-> <<"E">>, link |-> <<>>, guid |-> <<"g","3">>]),
    FeedItem(Field("plain", <<"F">>), Field("plain", <<"u","4">>),
             Field("attr", <<"g","4">>), <<>>,
             [title |-> <<"F">>, link |-> <<"u","4">>, guid |-> <<"g","4">>]),
    FeedItem(Field("cdata", <<"G">>), Field("plain", <<"u","5">>),
             Field("plain", <<>>), <<>>,
             [title |-> <<"G">>, link |-> <<"u","5">>, guid |-> <<>>]),
    FeedItem(Field("cdata", <<" ">>), Field("plain", <<"u","6">>),
             Field("attr", <<"g","6">>), <<>>,
             [title |-> <<>>, link |-> <<"u","6">>, guid |-> <<"g","6">>]) }

\* The tokens of a field.
RenderField(tag, f) ==
  CASE f.form = "cdata"  -> <<OpenTag(tag), "<![CDATA[">> \o f.text \o <<"]]>", CloseTag(tag)>>
    [] f.form = "plain"  -> <<OpenTag(tag)>> \o f.text \o <<CloseTag(tag)>>
    [] f.form = "attr"   -> <<OpenTagWithAttr(tag)>> \o f.text \o <<CloseTag(tag)>>
    [] f.form = "absent" -> <<>>

\* The tokens of an item block.
RenderItem(d) ==
  <<"<item>">> \o RenderField("title", d.title) \o RenderField("link", d.link)
    \o RenderField("guid", d.guid) \o d.extra \o <<"</item>">>

RECURSIVE RenderItems(_)
RenderItems(ds) ==
  IF ds = <<>> THEN <<>> ELSE RenderItem(Head(ds)) \o RenderItems(Tail(ds))

\* The feed document with these item blocks: the channel has a title and a
\* link of its own.
RenderFeed(ds) ==
  <<"<rss>", "<channel>", "<title>", "<![CDATA[", "B", "]]>", "</title>",
    "<link>", "u", "</link>">> \o RenderItems(ds) \o <<"</channel>", "</rss>">>

\* The sequences of at most n elements of S.
SeqsUpTo(S, n) == UNION {[1..k -> S] : k \in 0..n}

\* fetchBlogPosts is called (lines 18-19) with a number for maxPosts; the
\* endpoint has a document of at most MaxItems item blocks.
InitParse ==
  /\ env = [AI |-> TRUE, PROCESSED_POSTS |-> FALSE, GITHUB_TOKEN |-> "t",
            GITHUB_OWNER |-> "o", GITHUB_REPO |-> "r", POSTS_TO_FETCH |-> 0]
  /\ ScheduledIdle
  /\ PublishIdle
  /\ SideIdle
  /\ feedItems \in SeqsUpTo(FeedItemKinds, MaxItems)
  /\ xmlText = RenderFeed(feedItems)
  /\ maxPosts \in 0..(MaxItems + 1)
  /\ fbpPc = "fetch"
  /\ items = <<>>
  /\ itemIdx = 1
  /\ parsed = <<>>
  /\ fbpReturn = <<>>

\* fetchBlogPosts, lines 21-33: the feed is requested; a non-2xx answer and
\* a failed request raise.
FbpFetch ==
  /\ fbpPc = "fetch"
  /\ \E status \in {"ok", "non2xx", "transport"} :
       fbpPc' = IF fetchBlogPosts(status, <<>>, maxPosts).raised THEN "raised" ELSE "match"
  /\ UNCHANGED <<xmlText, maxPosts, items, itemIdx, parsed, fbpReturn, feedItems,
                 schedVars, pubVars, sideVars>>

\* parseRSSFeed, lines 52-58: the item blocks are matched.
FbpMatch ==
  /\ fbpPc = "match"
  /\ items' = matchAllItems(xmlText)
  /\ itemIdx' = 1
  /\ fbpPc' = IF matchAllItems(xmlText) = <<>> THEN "slice" ELSE "item"
  /\ UNCHANGED <<xmlText, maxPosts, parsed, fbpReturn, feedItems, schedVars, pubVars, sideVars>>

\* parseRSSFeed, lines 60-70: one turn of the loop; an item whose parsing
\* raises is logged and left out.
FbpItem ==
  /\ fbpPc = "item"
  /\ LET r == parseRSSItem(items[itemIdx])
     IN  parsed' = IF r.raised THEN parsed ELSE Append(parsed, r.post)
  /\ IF itemIdx < Len(items)
     THEN itemIdx' = itemIdx + 1 /\ fbpPc' = "item"
     ELSE itemIdx' = itemIdx /\ fbpPc' = "slice"
  /\ UNCHANGED <<xmlText, maxPosts, items, fbpReturn, feedItems, schedVars, pubVars, sideVars>>

\* parseRSSFeed, line 72, and fetchBlogPosts, lines 36-39: the posts are
\* returned, limited to maxPosts.
FbpReturn ==
  /\ fbpPc = "slice"
  /\ fbpReturn' = <<fetchBlogPosts("ok", parsed, maxPosts).posts>>
  /\ fbpPc' = "returned"
  /\ UNCHANGED <<xmlText, maxPosts, items, itemIdx, parsed, feedItems, schedVars, pubVars, sideVars>>

NextParse == FbpFetch \/ FbpMatch \/ FbpItem \/ FbpReturn

SpecParse == InitParse /\ [][NextParse]_vars

\* -------------------------------------------- the slug functions, alone

\* The characters titles are written with: a lower-case letter, an
\* upper-case letter, a digit, a hyphen, a blank and a punctuation mark.
TitleChars == {"a", "B", "7", "-", " ", "!"}

\* The characters paths are written with.
PathChars == {"a", "-", "/"}

\* The strings over chars of length n at most.
RECURSIVE StringsUpTo(_, _)
StringsUpTo(chars, n) ==
  IF n = 0 THEN {<<>>}
  ELSE LET shorter == StringsUpTo(chars, n - 1)
       IN  shorter \cup {Append(t, c) : t \in shorter, c \in chars}

\* rss-parser.test.ts, lines 22-28: the titles of the tests and the slugs
\* they expect.
SlugTests ==
  { [title  |-> <<"-","-","-","T","e","s","t"," ","T","i","t","l","e","-","-","-">>,
     expect |-> <<"t","e","s","t","-","t","i","t","l","e">>],
    [title  |-> <<"A"," "," "," ","c","l","o","s","e","r"," "," ","l","o","o","k",
                  " ","-","-"," ","a","t"," ","B","G","P">>,
     expect |-> <<"a","-","c","l","o","s","e","r","-","l","o","o","k","-","a","t",
                  "-","b","g","p">>] }

\* The titles generateSlug is called with.
Titles == StringsUpTo(TitleChars, MaxTitleLen) \cup {t.title : t \in SlugTests}

\* A host other than the blog's.
OtherHostSlash == <<"o","t","h","e","r",".","c","o","m","/">>

\* The urls extractSlugFromUrl is called with: a path after the blog's host
\* or after another host.
Urls ==
  {Https \o host \o path :
     host \in {BlogHostSlash, OtherHostSlash}, path \in StringsUpTo(PathChars, MaxPathLen)}

\* The records createBlogPostSummary is called with: titles with and
\* without a slug of their own, links on the blog's host with one and two
\* path segments and with none, a link on another host, and two values of
\* each other field.
Records ==
  { [title      |-> t,
     link       |-> Https \o l,
     guid       |-> g,
     pubDate    |-> d,
     categories |-> c,
     authors    |-> c] :
      t \in {<<"A"," ","b">>, <<"!">>},
      l \in {BlogHostSlash \o <<"a","/">>, BlogHostSlash \o <<"a","/","b">>,
             BlogHostSlash, OtherHostSlash \o <<"x">>},
      g \in {"g1", "g2"},
      d \in {"2026-01-15T00:00:00Z", ""},
      c \in {<<>>, <<"Ann", "AI">>} }

\* The summary text createBlogPostSummary is given.
RecordSummary == [disclaimer |-> TRUE, text |-> AIText(0, MIN_SUMMARY_LENGTH, 0, FALSE)]

InitSlug ==
  /\ env = [AI |-> TRUE, PROCESSED_POSTS |-> FALSE, GITHUB_TOKEN |-> "t",
            GITHUB_OWNER |-> "o", GITHUB_REPO |-> "r", POSTS_TO_FETCH |-> 0]
  /\ ScheduledIdle
  /\ PublishIdle
  /\ ParseIdle
  /\ \/ slugFn = "generateSlug" /\ slugArg \in Titles
     \/ slugFn = "extractSlugFromUrl" /\ slugArg \in Urls
     \/ slugFn = "createBlogPostSummary" /\ slugArg \in Records \X Records
  /\ slugCalls = <<>>
  /\ slugOfSlug = <<>>
  /\ ListIdle
  /\ BatchIdle
  /\ InvsIdle
  /\ GenIdle
  /\ ExtraIdle

\* generateSlug(title) is called, a first and a second time.
GenerateSlugCall ==
  /\ slugFn = "generateSlug"
  /\ Len(slugCalls) < 2
  /\ slugCalls' = Append(slugCalls, generateSlug(slugArg))
  /\ UNCHANGED <<slugFn, slugArg, slugOfSlug, schedVars, pubVars, parseVars, listVars, batchVars, invsVars, genVars, extraVars>>

\* generateSlug is called with the slug it returned.
GenerateSlugOfSlug ==
  /\ slugFn = "generateSlug"
  /\ slugCalls # <<>>
  /\ slugOfSlug = <<>>
  /\ slugOfSlug' = <<generateSlug(slugCalls[1])>>
  /\ UNCHANGED <<slugFn, slugArg, slugCalls, schedVars, pubVars, parseVars, listVars, batchVars, invsVars, genVars, extraVars>>

\* extractSlugFromUrl(url) is called.
ExtractSlugCall ==
  /\ slugFn = "extractSlugFromUrl"
  /\ slugCalls = <<>>
  /\ slugCalls' = <<extractSlugFromUrl(slugArg)>>
  /\ UNCHANGED <<slugFn, slugArg, slugOfSlug, schedVars, pubVars, parseVars, listVars, batchVars, invsVars, genVars, extraVars>>

\* createBlogPostSummary(post, summary) is called for the first and then
\* for the second record of the pair.
CreateSummaryCall ==
  /\ slugFn = "createBlogPostSummary"
  /\ Len(slugCalls) < 2
  /\ slugCalls' = Append(slugCalls,
                         createBlogPostSummary(slugArg[Len(slugCalls) + 1], RecordSummary))
  /\ UNCHANGED <<slugFn, slugArg, slugOfSlug, schedVars, pubVars, parseVars, listVars, batchVars, invsVars, genVars, extraVars>>

NextSlug == GenerateSlugCall \/ GenerateSlugOfSlug \/ ExtractSlugCall \/ CreateSummaryCall

SpecSlug == InitSlug /\ [][NextSlug]_vars

\* ------------------------------------------------ a ledger listing, alone

\* The namespaces that are listed: any set of the keys.
Namespaces == SUBSET {KeyOrder[n] : n \in 1..Len(KeyOrder)}

InitList ==
  /\ env = [AI |-> TRUE, PROCESSED_POSTS |-> TRUE, GITHUB_TOKEN |-> "t",
            GITHUB_OWNER |-> "o", GITHUB_REPO |-> "r", POSTS_TO_FETCH |-> 0]
  /\ ScheduledIdle
  /\ PublishIdle
  /\ ParseIdle
  /\ SlugIdle
  /\ lstKeys \in Namespaces
  /\ \/ lstFn = "getProcessedPostCount" /\ lstLimit = 0
     \/ lstFn = "getProcessedPosts" /\ lstLimit \in 1..(MaxKeys + 1)
  /\ lstPc = "list"
  /\ lstCursor = <<>>
  /\ lstCount = 0
  /\ lstGuids = <<>>
  /\ lstResult = <<>>
  /\ lstReturn = <<>>
  /\ lstRequests = <<>>
  /\ BatchIdle
  /\ InvsIdle
  /\ GenIdle
  /\ ExtraIdle

\* The limit of the next kv.list request (lines 119 and 151).
requestLimit ==
  IF lstFn = "getProcessedPosts"
  THEN pageLimit(lstLimit, Len(lstGuids)) ELSE KV_LIST_MAX

\* Lines 117-121 and 149-153: kv.list is awaited; the store answers with a
\* page or raises.
KvList ==
  /\ lstPc = "list"
  /\ lstRequests' = Append(lstRequests, requestLimit)
  /\ \/ lstResult' \in {<<pg>> : pg \in Pages(lstKeys, "post:", requestLimit, lstCursor)}
     \/ lstResult' = <<Raised>>
  /\ lstPc' = "page"
  /\ UNCHANGED <<lstFn, lstKeys, lstLimit, lstCursor, lstCount, lstGuids,
                 lstReturn, schedVars, pubVars, parseVars, slugVars, batchVars, invsVars, genVars, extraVars>>

\* getProcessedPostCount, lines 155-163: the page is counted and the loop
\* goes on or the count is returned; a raised kv.list returns 0.
CountPage ==
  /\ lstFn = "getProcessedPostCount"
  /\ lstPc = "page"
  /\ IF lstResult[1].raised
     THEN /\ lstReturn' = <<0>>
          /\ lstPc' = "done"
          /\ UNCHANGED <<lstCount, lstCursor>>
     ELSE LET result == lstResult[1]
              count  == lstCount + Len(result.keys)
              cursor == nextCursor(result)
          IN  /\ lstCount' = count
              /\ lstCursor' = cursor
              /\ IF countLoopGoesOn(cursor)
                 THEN lstPc' = "list" /\ UNCHANGED lstReturn
                 ELSE lstPc' = "done" /\ lstReturn' = <<count>>
  /\ UNCHANGED <<lstFn, lstKeys, lstLimit, lstGuids, lstResult, lstRequests,
                 schedVars, pubVars, parseVars, slugVars, batchVars, invsVars, genVars, extraVars>>

\* getProcessedPosts, lines 123-135: the guids of the page are collected and
\* the loop goes on or the guids are returned; a raised kv.list returns [].
PostsPage ==
  /\ lstFn = "getProcessedPosts"
  /\ lstPc = "page"
  /\ IF lstResult[1].raised
     THEN /\ lstReturn' = << <<>> >>
          /\ lstPc' = "done"
          /\ UNCHANGED <<lstGuids, lstCursor>>
     ELSE LET result    == lstResult[1]
              pageGuids == [k \in 1..Len(result.keys) |-> stripPostPrefix(result.keys[k])]
              guids     == lstGuids \o pageGuids
              cursor    == nextCursor(result)
          IN  /\ lstGuids' = guids
              /\ lstCursor' = cursor
              /\ IF postsLoopGoesOn(cursor, Len(guids), lstLimit)
                 THEN lstPc' = "list" /\ UNCHANGED lstReturn
                 ELSE lstPc' = "done" /\ lstReturn' = <<guids>>
  /\ UNCHANGED <<lstFn, lstKeys, lstLimit, lstCount, lstResult, lstRequests,
                 schedVars, pubVars, parseVars, slugVars, batchVars, invsVars, genVars, extraVars>>

NextList == KvList \/ CountPage \/ PostsPage

SpecList == InitList /\ [][NextList]_vars

\* ------------------------------------------- batchCheckProcessed, alone

\* The guids a batch asks about.
BatchGuids == {"g1", "g2"}

InitBatch ==
  /\ env = [AI |-> TRUE, PROCESSED_POSTS |-> TRUE, GITHUB_TOKEN |-> "t",
            GITHUB_OWNER |-> "o", GITHUB_REPO |-> "r", POSTS_TO_FETCH |-> 0]
  /\ ScheduledIdle
  /\ PublishIdle
  /\ ParseIdle
  /\ SlugIdle
  /\ ListIdle
  /\ bchKv \in {[k \in S |-> "entry"] : S \in SUBSET {getPostKey(g) : g \in BatchGuids}}
  /\ bchGuids \in SeqsUpTo(BatchGuids, MaxBatch)
  /\ bchPc = "call"
  /\ bchPending = {}
  /\ bchResults = << >>
  /\ bchReads = [k \in 1..Len(bchGuids) |-> <<>>]
  /\ bchFailed = {}
  /\ bchOrder = <<>>
  /\ InvsIdle
  /\ GenIdle
  /\ ExtraIdle

\* batchCheckProcessed, lines 193-199: guids.map starts one isPostProcessed
\* per position, each of which awaits its kv.get.
BatchCall ==
  /\ bchPc = "call"
  /\ bchPending' = 1..Len(bchGuids)
  /\ bchPc' = "reading"
  /\ UNCHANGED <<bchKv, bchGuids, bchResults, bchReads, bchFailed, bchOrder,
                 schedVars, pubVars, parseVars, slugVars, listVars, invsVars, genVars, extraVars>>

\* Lines 199-200: the kv.get of one position is answered or raises, its
\* isPostProcessed returns and the value is set in results.  The awaited
\* reads complete in any order.
BatchRead ==
  /\ bchPc = "reading"
  /\ \E k \in bchPending, readOk \in BOOLEAN :
       LET r == isPostProcessed(bchKv, bchGuids[k], readOk)
       IN  /\ bchPending' = bchPending \ {k}
           /\ bchFailed' = IF readOk THEN bchFailed ELSE bchFailed \cup {k}
           /\ bchOrder' = Append(bchOrder, k)
           /\ IF r.raised
              THEN /\ bchPc' = "raised"
                   /\ UNCHANGED <<bchResults, bchReads>>
              ELSE /\ bchReads' = [bchReads EXCEPT ![k] = <<r.value>>]
                   /\ bchResults' = mapSet(bchResults, bchGuids[k], r.value)
                   /\ UNCHANGED bchPc
  /\ UNCHANGED <<bchKv, bchGuids, schedVars, pubVars, parseVars, slugVars, listVars, invsVars, genVars, extraVars>>

\* Lines 197 and 204: Promise.all is settled and results is returned.
BatchReturn ==
  /\ bchPc = "reading"
  /\ bchPending = {}
  /\ bchPc' = "done"
  /\ UNCHANGED <<bchKv, bchGuids, bchPending, bchResults, bchReads, bchFailed,
                 bchOrder, schedVars, pubVars, parseVars, slugVars, listVars, invsVars, genVars, extraVars>>

NextBatch == BatchCall \/ BatchRead \/ BatchReturn

SpecBatch == InitBatch /\ [][NextBatch]_vars

\* ------------------------------------------------ overlapping invocations
\* The cron trigger fires whether or not the previous invocation has
\* returned, so invocations of scheduled can be in progress together.  Each
\* has its own locals; the ledger and the repository are shared.  An
\* invocation that starts when all others are over is the next run.

\* The feeds served while the invocations are followed.
SharedFeeds == {<<PostA>>}

\* An invocation that has not started.
IdleInv ==
  [pc           |-> "idle",
   posts        |-> <<>>,
   fIdx         |-> 1,
   newPosts     |-> <<>>,
   i            |-> 1,
   summary      |-> <<>>,
   existingSha  |-> <<>>,
   successCount |-> 0,
   failureCount |-> 0,
   \* ---- observations, read by the properties only
   outcomes     |-> <<>>,   \* per handled record, how the loop left it
   readRaised   |-> {},     \* the guids whose kv.get raised
   updated      |-> {},     \* the guids whose PUT carried a revision marker
   alone        |-> TRUE,   \* no other invocation was in progress with it
   clean        |-> TRUE]   \* no request of this invocation has failed

Invocations == 1..MaxInvocations

Active(r) == invs[r].pc \notin {"idle", "done", "fatal", "crashed"}

InitRuns ==
  /\ env = [AI |-> TRUE, PROCESSED_POSTS |-> TRUE, GITHUB_TOKEN |-> "t",
            GITHUB_OWNER |-> "o", GITHUB_REPO |-> "r", POSTS_TO_FETCH |-> 0]
  /\ ScheduledIdle
  /\ PublishIdle
  /\ ParseIdle
  /\ SlugIdle
  /\ ListIdle
  /\ BatchIdle
  /\ GenIdle
  /\ ExtraIdle
  /\ sharedFeed \in SharedFeeds
  /\ sharedKv = << >>
  /\ sharedRepo = << >>
  /\ invs = [r \in Invocations |-> IdleInv]

\* What none of the steps of the overlapping invocations changes.
outsideInvs == <<schedVars, pubVars, parseVars, slugVars, listVars, batchVars, genVars, extraVars>>

\* scheduled is invoked by the cron trigger (lines 239-257); the bindings
\* are present.  Invocations are numbered in the order they start.
InvStart(r) ==
  /\ invs[r].pc = "idle"
  /\ r > 1 => invs[r - 1].pc # "idle"
  /\ Cardinality({s \in Invocations : Active(s)}) < MaxActive
  /\ preconditionsHold(env)
  /\ LET overlap == \E s \in Invocations : Active(s)
     IN  invs' = [s \in Invocations |->
                    IF s = r
                    THEN [invs[r] EXCEPT !.pc = "fetch", !.alone = ~overlap]
                    ELSE IF Active(s) THEN [invs[s] EXCEPT !.alone = FALSE]
                    ELSE invs[s]]
  /\ UNCHANGED <<sharedFeed, sharedKv, sharedRepo, outsideInvs>>

\* scheduled, lines 259-274: the feed is fetched and the ledger counted.
InvFetch(r) ==
  /\ invs[r].pc = "fetch"
  /\ \E status \in {"ok", "non2xx"} :
       LET f == fetchBlogPosts(status, sharedFeed, env.POSTS_TO_FETCH)
       IN  invs' = [invs EXCEPT ![r] =
                      IF f.raised
                      THEN [@ EXCEPT !.pc = "fatal", !.clean = FALSE]
                      ELSE [@ EXCEPT !.posts = f.posts,
                                     !.pc = IF f.posts = <<>>
                                            THEN afterFiltering(<<>>) ELSE "filter"]]
  /\ UNCHANGED <<sharedFeed, sharedKv, sharedRepo, outsideInvs>>

\* scheduled, lines 275-280: one turn of the filtering loop; kv.get is
\* answered from the ledger as it is now, or raises.
InvFilter(r) ==
  /\ invs[r].pc = "filter"
  /\ \E readOk \in BOOLEAN :
       LET v    == invs[r]
           post == v.posts[v.fIdx]
           a    == isPostProcessed(sharedKv, post.guid, readOk)
           np   == IF a.value THEN v.newPosts ELSE Append(v.newPosts, post)
       IN  invs' = [invs EXCEPT ![r] =
                      [@ EXCEPT !.newPosts = np,
                                !.readRaised = IF readOk THEN @ ELSE @ \cup {post.guid},
                                !.clean = @ /\ readOk,
                                !.fIdx = IF v.fIdx < Len(v.posts) THEN @ + 1 ELSE @,
                                !.pc = IF v.fIdx < Len(v.posts)
                                       THEN "filter" ELSE afterFiltering(np)]]
  /\ UNCHANGED <<sharedFeed, sharedKv, sharedRepo, outsideInvs>>

\* The end of one turn of the processing loop of invocation state v: the
\* success branch (line 329) or the catch block (lines 331-336).
invRecordEnd(v, failed, outcome) ==
  LET goesOn == afterRecord(failed, v.i, Len(v.newPosts))
  IN  [v EXCEPT !.successCount = IF failed THEN @ ELSE @ + 1,
                !.failureCount = IF failed THEN @ + 1 ELSE @,
                !.outcomes = Append(@, outcome),
                !.pc = goesOn,
                !.i = IF goesOn = "summarize" THEN @ + 1 ELSE @,
                !.summary = <<>>,
                !.existingSha = <<>>]

\* generateSummary, called at line 305: the call returns the summary of the
\* last answer it got from ai.run, or raises when that answer, the third,
\* was unacceptable too.
InvSummarize(r) ==
  /\ invs[r].pc = "summarize"
  /\ \E last \in AIResponses :
       LET a == summaryAttempt(last, includeDisclaimerOf(NoOptions))
       IN  invs' = [invs EXCEPT ![r] =
                      IF a.raised
                      THEN invRecordEnd([@ EXCEPT !.clean = FALSE], TRUE, "summarize")
                      ELSE [@ EXCEPT !.summary = <<a.summary>>, !.pc = "getsha"]]
  /\ UNCHANGED <<sharedFeed, sharedKv, sharedRepo, outsideInvs>>

\* The artifact of the record invocation state v is processing (line 310).
invSummary(v) == createBlogPostSummary(v.newPosts[v.i], v.summary[1])

\* publishToGitHub, lines 110-117: the revision marker of the path is read
\* from the repository as it is now.
InvGetSha(r) ==
  /\ invs[r].pc = "getsha"
  /\ \E net \in {"ok", "error"} :
       invs' = [invs EXCEPT ![r] =
                  [@ EXCEPT !.existingSha =
                               getFileSha(sharedRepo, filePath(invSummary(invs[r])), net),
                            !.clean = @ /\ net = "ok",
                            !.pc = "put"]]
  /\ UNCHANGED <<sharedFeed, sharedKv, sharedRepo, outsideInvs>>

\* publishToGitHub, lines 119-162, then scheduled, lines 313-317: one PUT
\* against the repository as it is now.
InvPut(r) ==
  /\ invs[r].pc = "put"
  /\ LET v       == invs[r]
         art     == invSummary(v)
         content == jsonStringify(art)
     IN  \E net \in {"ok", "fail"} :
           LET sent      == ~btoaRaises(content)
               body      == putBody(v.existingSha, art.title, btoa(content))
               a         == IF sent
                            THEN githubPut(sharedRepo, filePath(art), body.sha,
                                           body.content, net)
                            ELSE [ok |-> FALSE, repo |-> sharedRepo]
               published == publishResult(sent, IF a.ok THEN "2xx" ELSE "non2xx")
               w         == [v EXCEPT !.updated = IF sent /\ body.sha # <<>>
                                                  THEN @ \cup {art.guid} ELSE @,
                                      !.clean = @ /\ net = "ok"]
           IN  /\ ~sent => net = "fail"
               /\ sharedRepo' = a.repo
               /\ invs' = [invs EXCEPT ![r] =
                             IF publishedGoesOn(published)
                             THEN [w EXCEPT !.pc = "mark"]
                             ELSE invRecordEnd(w, TRUE, "publish")]
  /\ UNCHANGED <<sharedFeed, sharedKv, outsideInvs>>

\* scheduled, lines 319-329: the record is marked processed.
InvMark(r) ==
  /\ invs[r].pc = "mark"
  /\ LET v    == invs[r]
         post == v.newPosts[v.i]
         meta == [title |-> post.title, slug |-> invSummary(v).slug, url |-> post.link]
     IN  \E putOk \in BOOLEAN :
           LET a == markPostProcessed(sharedKv, post.guid, meta, r, putOk)
           IN  /\ sharedKv' = a.kv
               /\ invs' = [invs EXCEPT ![r] =
                             IF a.raised
                             THEN invRecordEnd([v EXCEPT !.clean = @ /\ putOk], TRUE, "mark")
                             ELSE invRecordEnd([v EXCEPT !.clean = @ /\ putOk], FALSE, "ok")]
  /\ UNCHANGED <<sharedFeed, sharedRepo, outsideInvs>>

\* The runtime stops the invocation between line 311 (publishToGitHub
\* returned true) and line 321 (markPostProcessed): nothing more of it runs.
InvCrash(r) ==
  /\ invs[r].pc = "mark"
  /\ invs' = [invs EXCEPT ![r] = [@ EXCEPT !.pc = "crashed"]]
  /\ UNCHANGED <<sharedFeed, sharedKv, sharedRepo, outsideInvs>>

NextRuns ==
  \E r \in Invocations :
    \/ InvStart(r) \/ InvFetch(r) \/ InvFilter(r) \/ InvSummarize(r)
    \/ InvGetSha(r) \/ InvPut(r) \/ InvMark(r) \/ InvCrash(r)

SpecRuns == InitRuns /\ [][NextRuns]_vars

\* ---------------------------------------------- generateSummary on its own

\* generateSummary has not been called yet.
InitGen ==
  /\ env = [AI |-> TRUE, PROCESSED_POSTS |-> TRUE, GITHUB_TOKEN |-> "t",
            GITHUB_OWNER |-> "o", GITHUB_REPO |-> "r", POSTS_TO_FETCH |-> 0]
  /\ ScheduledIdle
  /\ PublishIdle
  /\ ParseIdle
  /\ SlugIdle
  /\ ListIdle
  /\ BatchIdle
  /\ InvsIdle
  /\ GenIdle
  /\ ExtraIdle

outsideGen == <<schedVars, pubVars, parseVars, slugVars, listVars, batchVars, invsVars, extraVars>>

\* generateSummary(ai, post, options) is called (lines 103-113): the loop
\* starts at attempt 1.
GenCall ==
  /\ genPc = "idle"
  /\ genOptions' \in {<<>>, <<TRUE>>, <<FALSE>>}
  /\ genDisclaimer' = includeDisclaimerOf(genOptions')
  /\ genAttempt' = 1
  /\ genPc' = "run"
  /\ UNCHANGED <<genResponse, genReturn, genAnswers, genTimers, outsideGen>>

\* Line 122: ai.run is awaited; the backend answers or raises.
GenAiRun ==
  /\ genPc = "run"
  /\ genResponse' \in AIResponses
  /\ genAnswers' = Append(genAnswers, genResponse')
  /\ genPc' = "answered"
  /\ UNCHANGED <<genOptions, genDisclaimer, genAttempt, genReturn, genTimers, outsideGen>>

\* Lines 128-165: what the attempt does with the answer.  It returns the
\* summary; or, in the catch block, it sets the timer of the backoff when
\* this was not the last attempt (lines 160-164) and otherwise goes on to
\* the next round of the loop, which ends it (lines 113, 169-172).
GenAttempt ==
  /\ genPc = "answered"
  /\ LET r == summaryAttempt(genResponse, genDisclaimer)
     IN  IF ~r.raised
         THEN /\ genReturn' = <<r.summary>>
              /\ genPc' = "returned"
              /\ UNCHANGED <<genAttempt, genTimers>>
         ELSE IF waitsAfter(genAttempt)
         THEN /\ genTimers' = Append(genTimers, retryDelay(genAttempt))
              /\ genPc' = "sleep"
              /\ UNCHANGED <<genAttempt, genReturn>>
         ELSE /\ genAttempt' = genAttempt + 1
              /\ genPc' = IF retryAfter(genAttempt) THEN "run" ELSE "raised"
              /\ UNCHANGED <<genReturn, genTimers>>
  /\ genResponse' = [kind |-> "none"]
  /\ UNCHANGED <<genOptions, genDisclaimer, genAnswers, outsideGen>>

\* Line 163: the timer fires and the awaited promise resolves; the loop
\* goes to its next round (line 113).
GenWake ==
  /\ genPc = "sleep"
  /\ genAttempt' = genAttempt + 1
  /\ genPc' = IF retryAfter(genAttempt) THEN "run" ELSE "raised"
  /\ UNCHANGED <<genOptions, genDisclaimer, genResponse, genReturn, genAnswers, genTimers,
                 outsideGen>>

NextGen == GenCall \/ GenAiRun \/ GenAttempt \/ GenWake

SpecGen == InitGen /\ [][NextGen]_vars

\* ------------------------------------------------ getUserPrompt on its own

\* What the content of a post is written with: letters, a blank, a newline,
\* the brackets of tags and the entity of the non-breaking space.
ContentChars == {"a", " ", "\n", "<", ">", "&nbsp;"}

\* The text of the truncation example: "one two three four".
OneTwoThreeFour ==
  <<"o","n","e"," ","t","w","o"," ","t","h","r","e","e"," ","f","o","u","r">>

\* getUserPrompt has not been called yet.  A call has the content of its
\* post and the character budget of truncateText, which is 4000 in
\* getUserPrompt (line 80) and taken small here; the example is truncated
\* to 11 characters.
InitPrompt ==
  /\ env = [AI |-> TRUE, PROCESSED_POSTS |-> FALSE, GITHUB_TOKEN |-> "t",
            GITHUB_OWNER |-> "o", GITHUB_REPO |-> "r", POSTS_TO_FETCH |-> 0]
  /\ ScheduledIdle
  /\ PublishIdle
  /\ ParseIdle
  /\ SlugIdle
  /\ ListIdle
  /\ BatchIdle
  /\ InvsIdle
  /\ GenIdle
  /\ \/ /\ prContent \in StringsUpTo(ContentChars, MaxContentLen)
        /\ prLimit \in 1..MaxLimit
     \/ /\ prContent = OneTwoThreeFour
        /\ prLimit \in {11, Len(OneTwoThreeFour)}
  /\ prPc = "idle"
  /\ prText = <<>>
  /\ prResult = <<>>
  /\ SumsIdle
  /\ HttpIdle

outsidePrompt == <<schedVars, pubVars, parseVars, slugVars, listVars, batchVars,
                   invsVars, genVars, sumsVars, httpVars>>

\* getUserPrompt, line 79: stripHtml(post.content)
PromptStrip ==
  /\ prPc = "idle"
  /\ prText' = stripHtml(prContent)
  /\ prPc' = "stripped"
  /\ UNCHANGED <<prContent, prLimit, prResult, outsidePrompt>>

\* getUserPrompt, line 80: truncateText(plainTextContent, maxChars)
PromptTruncate ==
  /\ prPc = "stripped"
  /\ prResult' = <<truncateText(prText, prLimit)>>
  /\ prPc' = "truncated"
  /\ UNCHANGED <<prContent, prLimit, prText, outsidePrompt>>

NextPrompt == PromptStrip \/ PromptTruncate

SpecPrompt == InitPrompt /\ [][NextPrompt]_vars

\* -------------------------------------------- generateSummaries on its own

\* generateSummaries has not been called yet.
InitSums ==
  /\ env = [AI |-> TRUE, PROCESSED_POSTS |-> FALSE, GITHUB_TOKEN |-> "t",
            GITHUB_OWNER |-> "o", GITHUB_REPO |-> "r", POSTS_TO_FETCH |-> 0]
  /\ ScheduledIdle
  /\ PublishIdle
  /\ ParseIdle
  /\ SlugIdle
  /\ ListIdle
  /\ BatchIdle
  /\ InvsIdle
  /\ GenIdle
  /\ PromptIdle
  /\ SumsIdle
  /\ HttpIdle

outsideSums == <<schedVars, pubVars, parseVars, slugVars, listVars, batchVars,
                 invsVars, promptVars, httpVars>>

\* generateSummaries(ai, posts, options) is called (lines 182-189).
SumsCall ==
  /\ gsPc = "idle"
  /\ gsPosts' \in SeqsUpTo({PostA, PostC}, MaxPosts)
  /\ gsOptions' \in {<<>>, <<TRUE>>, <<FALSE>>}
  /\ gsIdx' = 1
  /\ gsSummaries' = <<>>
  /\ gsPc' = "loop"
  /\ UNCHANGED <<gsReturn, gsCalledFor, gsOutcomes, genVars, outsideSums>>

\* Lines 192-194: the loop calls generateSummary(ai, post, options) for the
\* next post, or has no post left and the function returns the summaries
\* (line 205).
SumsStep ==
  /\ gsPc = "loop"
  /\ IF gsIdx <= Len(gsPosts)
     THEN /\ genOptions' = gsOptions
          /\ genDisclaimer' = includeDisclaimerOf(gsOptions)
          /\ genAttempt' = 1
          /\ genPc' = "run"
          /\ genResponse' = [kind |-> "none"]
          /\ genReturn' = <<>>
          /\ genAnswers' = <<>>
          /\ genTimers' = <<>>
          /\ gsCalledFor' = Append(gsCalledFor, gsPosts[gsIdx])
          /\ gsPc' = "awaiting"
          /\ UNCHANGED gsReturn
     ELSE /\ gsReturn' = <<gsSummaries>>
          /\ gsPc' = "returned"
          /\ UNCHANGED <<genVars, gsCalledFor>>
  /\ UNCHANGED <<gsPosts, gsOptions, gsIdx, gsSummaries, gsOutcomes, outsideSums>>

\* Lines 194-202: generateSummary has returned or raised; its summary or the
\* fallback is pushed and the loop goes on.
SumsCollect ==
  /\ gsPc = "awaiting"
  /\ genPc \in {"returned", "raised"}
  /\ LET outcome == [raised |-> genPc = "raised", summary |-> genReturn]
     IN  /\ gsSummaries' = pushSummary(gsSummaries, outcome)
         /\ gsOutcomes' = Append(gsOutcomes, outcome)
  /\ gsIdx' = gsIdx + 1
  /\ gsPc' = "loop"
  /\ UNCHANGED <<gsPosts, gsOptions, gsReturn, gsCalledFor, genVars, outsideSums>>

NextSums == SumsCall \/ SumsStep \/ GenAiRun \/ GenAttempt \/ GenWake \/ SumsCollect

SpecSums == InitSums /\ [][NextSums]_vars

\* ------------------------------------------------------- the fetch handler

\* The paths a request can have: the six endpoints and another path.
Paths == {"/health", "/test", "/test-kv", "/test-ai", "/test-github", "/trigger", "/"}

\* new Response(JSON.stringify(body), {status}): the status and the keys of
\* the JSON object of the body.
JsonResponse(status, keys) == [status |-> status, json |-> TRUE, keys |-> keys]

\* new Response(text, {status}): a body that is not JSON.
TextResponse(status) == [status |-> status, json |-> FALSE, keys |-> {}]

\* The response of the catch blocks (lines 400-413, 437-444, 495-507,
\* 581-593, 618-630): status 500 with the message of the error.
CaughtResponse(path) ==
  JsonResponse(500, IF path = "/test-kv" THEN {"error"} ELSE {"error", "stack"})

\* No request has arrived yet.
InitHttp ==
  /\ env \in Envs
  /\ ScheduledIdle
  /\ PublishIdle
  /\ ParseIdle
  /\ SlugIdle
  /\ ListIdle
  /\ BatchIdle
  /\ InvsIdle
  /\ GenIdle
  /\ PromptIdle
  /\ SumsIdle
  /\ HttpIdle

outsideHttp == <<schedVars, pubVars, parseVars, slugVars, listVars, batchVars,
                 invsVars, genVars, promptVars, sumsVars>>

\* fetch, lines 363-366 and the checks each endpoint makes before its first
\* request: /health answers at once (367-384), /test-kv needs the ledger
\* binding (418-423), /test-ai the AI binding (448-453), /test-github the
\* GitHub configuration and the AI binding (512-532); another path gets the
\* list of endpoints (633-636).
HttpRoute ==
  /\ hPc = "idle"
  /\ \E path \in Paths :
       /\ hPath' = path
       /\ LET answer(r) == hResponse' = <<r>> /\ hPc' = "responded"
              goOn(to)  == hResponse' = <<>> /\ hPc' = to
          IN  CASE path = "/health" ->
                     answer(JsonResponse(200, {"status", "timestamp", "config"}))
                [] path = "/test" -> goOn("fetch")
                [] path = "/test-kv" ->
                     IF ~hasLedger(env) THEN answer(JsonResponse(500, {"error"}))
                     ELSE goOn("count")
                [] path = "/test-ai" ->
                     IF ~isAIAvailable(env) THEN answer(JsonResponse(500, {"error"}))
                     ELSE goOn("fetch")
                [] path = "/test-github" ->
                     IF createGitHubConfig(env) = <<>>
                     THEN answer(JsonResponse(500, {"error", "message"}))
                     ELSE IF ~isAIAvailable(env)
                     THEN answer(JsonResponse(500, {"error"}))
                     ELSE goOn("fetch")
                [] path = "/trigger" -> goOn("scheduled")
                [] OTHER -> answer(TextResponse(200))
  /\ UNCHANGED <<hPost, hSummary, outsideHttp>>

\* Lines 390-399, 457-468 and 536-547: fetchBlogPosts is awaited with
\* maxPosts 3 (/test) or 1; /test answers with the posts, the others answer
\* 404 when there is no post.
HttpFetch ==
  /\ hPc = "fetch"
  /\ \E status \in {"ok", "non2xx", "transport"}, doc \in Feeds :
       LET r == fetchBlogPosts(status, doc, IF hPath = "/test" THEN 3 ELSE 1)
       IN  /\ status # "ok" => doc = <<>>
           /\ IF r.raised
              THEN /\ hResponse' = <<CaughtResponse(hPath)>>
                   /\ hPc' = "responded"
                   /\ UNCHANGED hPost
              ELSE IF hPath = "/test"
              THEN /\ hResponse' = <<JsonResponse(200, {})>>
                   /\ hPc' = "responded"
                   /\ UNCHANGED hPost
              ELSE IF Len(r.posts) = 0
              THEN /\ hResponse' = <<JsonResponse(404, {"error"})>>
                   /\ hPc' = "responded"
                   /\ UNCHANGED hPost
              ELSE /\ hPost' = <<r.posts[1]>>
                   /\ hPc' = "summarize"
                   /\ UNCHANGED hResponse
  /\ UNCHANGED <<hPath, hSummary, outsideHttp>>

\* Lines 425-436: getProcessedPostCount is awaited; it returns a count also
\* when its listing fails.
HttpCount ==
  /\ hPc = "count"
  /\ hResponse' = <<JsonResponse(200, {"message", "processedPostCount"})>>
  /\ hPc' = "responded"
  /\ UNCHANGED <<hPath, hPost, hSummary, outsideHttp>>

\* Lines 472-494 and 552: generateSummary is awaited; it returns the summary
\* of its last answer or raises after its retries.
HttpSummarize ==
  /\ hPc = "summarize"
  /\ \E last \in AIResponses :
       LET a == summaryAttempt(last, includeDisclaimerOf(NoOptions))
       IN  IF a.raised
           THEN /\ hResponse' = <<CaughtResponse(hPath)>>
                /\ hPc' = "responded"
                /\ UNCHANGED hSummary
           ELSE IF hPath = "/test-ai"
           THEN /\ hResponse' =
                     <<JsonResponse(200, {"message", "post", "summary", "summaryLength"})>>
                /\ hPc' = "responded"
                /\ UNCHANGED hSummary
           ELSE /\ hSummary' = <<a.summary>>
                /\ hPc' = "publish"
                /\ UNCHANGED hResponse
  /\ UNCHANGED <<hPath, hPost, outsideHttp>>

\* Lines 555-580: publishToGitHub is awaited; the status of the response is
\* 200 or 500 after its result.
HttpPublish ==
  /\ hPc = "publish"
  /\ \E answer \in {"2xx", "non2xx", "raise"} :
       LET success == publishResult(
                        ~btoaRaises(jsonStringify(createBlogPostSummary(hPost[1], hSummary[1]))),
                        answer)
       IN  hResponse' =
             <<JsonResponse(IF success THEN 200 ELSE 500,
                            {"message", "success", "post", "githubPath", "repoUrl"})>>
  /\ hPc' = "responded"
  /\ UNCHANGED <<hPath, hPost, hSummary, outsideHttp>>

\* Lines 598-617: this.scheduled is awaited; it raises when a binding is
\* missing or the feed request fails, and returns otherwise.
HttpTrigger ==
  /\ hPc = "scheduled"
  /\ \E status \in {"ok", "non2xx", "transport"} :
       LET raised == \/ ~preconditionsHold(env)
                     \/ fetchBlogPosts(status, <<>>, env.POSTS_TO_FETCH).raised
       IN  hResponse' = << IF raised THEN CaughtResponse(hPath)
                           ELSE JsonResponse(200, {"message", "timestamp"}) >>
  /\ hPc' = "responded"
  /\ UNCHANGED <<hPath, hPost, hSummary, outsideHttp>>

NextHttp ==
  \/ HttpRoute \/ HttpFetch \/ HttpCount \/ HttpSummarize \/ HttpPublish
  \/ HttpTrigger

SpecHttp == InitHttp /\ [][NextHttp]_vars

\* ------------------------------------------------------------- properties

Processing == pc \in {"summarize", "answered", "getsha", "put", "mark"}

\* The run has returned from the processing loop (SUMMARY).
AtSummary == pc = "done" /\ newPosts # <<>>

HasLedgerEntry(guid) == getPostKey(guid) \in DOMAIN kv

\* The artifacts in the content store that carry the guid.
ArtifactPaths(files, guid) ==
  {path \in DOMAIN files : files[path].content.base64.json.guid = guid}

CountOf(q, x) == Cardinality({j \in 1..Len(q) : q[j] = x})

\* C1: per-item isolation.  When the run reaches SUMMARY every new record
\* has been handled, whatever happened to the others: each was summarized,
\* and each record the outside did not fail (its summarization, its publish
\* and its ledger write went through) was published and ledger-marked in
\* this run; the counts are the numbers of records that succeeded and
\* failed.  With 3 new records of which only record 2 fails, in
\* summarization: 2 successes, 1 failure, records 1 and 3 published and
\* marked.
C1_PerItemIsolation ==
  AtSummary =>
    /\ Len(outcomes) = Len(newPosts)
    /\ sumCalls = Len(newPosts)
    /\ \A j \in 1..Len(newPosts) :
         faults[j] = "none" =>
           /\ outcomes[j] = "ok"
           /\ j \in pubOk
           /\ env.PROCESSED_POSTS =>
                /\ j \in markCalled
                /\ HasLedgerEntry(newPosts[j].guid)
                /\ kv[getPostKey(newPosts[j].guid)].timestamp = run
    /\ successCount = CountOf(faults, "none")
    /\ failureCount = Len(newPosts) - CountOf(faults, "none")
    /\ (Len(newPosts) = 3 /\ faults = <<"none", "ai", "none">>) =>
         /\ successCount = 2
         /\ failureCount = 1
         /\ {1, 3} \subseteq pubOk
         /\ ArtifactPaths(repo, newPosts[3].guid) # {}

C1_Witness ==
  /\ AtSummary
  /\ env.PROCESSED_POSTS
  /\ Len(newPosts) = 3
  /\ faults = <<"none", "ai", "none">>
  /\ HasLedgerEntry(newPosts[1].guid)
  /\ HasLedgerEntry(newPosts[3].guid)

\* C2: no ledger mark without a successful publish.  markPostProcessed is
\* invoked for a record only after publishToGitHub returned true for it in
\* the same run; a record whose summarization raised or whose publish
\* returned false is not marked; every ledger entry written by this run
\* belongs to a record this run published.
C2_NoMarkWithoutPublish ==
  /\ markCalled \subseteq pubOk
  /\ \A j \in 1..Len(outcomes) :
       (outcomes[j] \in {"summarize", "publish"} \/ j \notin pubOk) => j \notin markCalled
  /\ \A key \in DOMAIN kv :
       kv[key].timestamp = run =>
         \E j \in pubOk : getPostKey(newPosts[j].guid) = key

C2_Witness ==
  /\ AtSummary
  /\ \E j, k \in 1..Len(outcomes) :
       /\ outcomes[j] = "publish"
       /\ ~HasLedgerEntry(newPosts[j].guid)
       /\ outcomes[k] = "ok"
       /\ k \in markCalled

\* C3: ledger implies artifact.  Between runs, every guid with a ledger entry
\* has an artifact in the content store whose guid field is that guid.
C3_LedgerImpliesArtifact ==
  pc \in {"idle", "done", "fatal"} =>
    \A key \in DOMAIN kv : ArtifactPaths(repo, key[2]) # {}

\* C4: safe re-entrancy.  After a run that returned with no failure, a run
\* over the same feed whose ledger reads succeed finds no new record and
\* issues no summarization, no publish and no ledger write.
C4_SafeReentrancy ==
  ( /\ prevRun # <<>>
    /\ env.PROCESSED_POSTS
    /\ fetchStatus = "ok"
    /\ feed = prevRun[1]
    /\ ~readFailed )
  => /\ newPosts = <<>>
     /\ ~Processing
     /\ sumCalls = 0
     /\ pubCalls = 0
     /\ kvWrites = 0

C4_Witness ==
  /\ prevRun # <<>>
  /\ env.PROCESSED_POSTS
  /\ fetchStatus = "ok"
  /\ feed = prevRun[1]
  /\ ~readFailed
  /\ Len(posts) >= 2
  /\ pc = "done"
  /\ \A k \in 1..Len(posts) : kv[getPostKey(posts[k].guid)].timestamp < run

\* The Mark step that completes a pass (summarize, build, publish, mark) on a
\* record whose guid already has a ledger entry: a second run of the
\* pipeline on the record.
SecondPassCompletes ==
  /\ pc = "mark"
  /\ HasLedgerEntry(newPosts[i].guid)
  /\ outcomes' = Append(outcomes, "ok")

KeysOf(store, guid) == {key \in DOMAIN store : key[2] = guid}

\* C5 as claimed: the second pass leaves one ledger entry and one artifact
\* at one path, the content is identical to what the path held before (same
\* blob sha), and the publish was an update carrying the marker left by the
\* first publish of the record.
C5_Original ==
  [][SecondPassCompletes =>
       /\ Cardinality(KeysOf(kv', newPosts[i].guid)) = 1
       /\ ArtifactPaths(repo', newPosts[i].guid) = {filePath(postSummary)}
       /\ existingSha # <<>>
       /\ existingSha[1].sha.base64.json.guid = newPosts[i].guid
       /\ repo'[filePath(postSummary)].sha = existingSha[1]]_vars

\* C5 amended: the second pass leaves exactly one ledger entry (key
\* post:{guid}) and exactly one artifact of the guid, at the record's storage
\* path, holding the artifact the second pass built; the second publish is
\* one write, an update carrying the revision marker found at the path, never
\* a create; against an earlier artifact of the same record only the summary
\* can differ.
C5_IdempotentReprocessing ==
  [][SecondPassCompletes =>
       /\ KeysOf(kv', newPosts[i].guid) = {<<"post:", newPosts[i].guid>>}
       /\ ArtifactPaths(repo', newPosts[i].guid) = {filePath(postSummary)}
       /\ repo'[filePath(postSummary)].content.base64.json = postSummary
       /\ putSent = 1
       /\ existingSha # <<>>
       /\ LET old == existingSha[1].sha.base64.json
          IN  old.guid = newPosts[i].guid =>
                [old EXCEPT !.summary = postSummary.summary] = postSummary]_vars

\* A second pass has completed: the previous run returned without failure
\* over the same feed, so every record of the feed had its ledger entry, and
\* this run processed and marked one of them again.
C5_Witness ==
  /\ env.PROCESSED_POSTS
  /\ prevRun # <<>>
  /\ feed = prevRun[1]
  /\ \E j \in 1..Len(outcomes) :
       /\ outcomes[j] = "ok"
       /\ j \in markCalled
       /\ kv[getPostKey(newPosts[j].guid)].timestamp = run
       /\ ArtifactPaths(repo, newPosts[j].guid) # {}

\* What the claims call an acceptable answer of the backend: a text of at
\* least 50 characters.
Acceptable(r) ==
  r.kind \in {"object", "string"} /\ r.text.body >= MIN_SUMMARY_LENGTH

\* C6: bounded retry.  One generateSummary call issues at most 3 ai.run
\* requests; on an acceptable answer it returns the summary at once; on an
\* unacceptable one it retries while fewer than 3 requests were made, and
\* after the third it raises to the caller with no summary in place of the
\* missing one.
C6_BoundedRetry ==
  [][/\ aiCalls' <= MAX_RETRIES
     /\ pc = "answered" =>
          IF Acceptable(response)
          THEN pc' = "getsha" /\ summary' # <<>> /\ outcomes' = outcomes
          ELSE IF aiCalls < MAX_RETRIES
          THEN pc' = "summarize" /\ i' = i /\ summary' = <<>> /\ outcomes' = outcomes
          ELSE /\ outcomes' = Append(outcomes, "summarize")
               /\ failureCount' = failureCount + 1
               /\ summary' = <<>>
               /\ pc' \in {"summarize", "done"}]_vars

C6_Witness ==
  /\ AtSummary
  /\ \E j, k \in 1..Len(outcomes) : outcomes[j] = "summarize" /\ outcomes[k] = "ok"
  /\ aiCalls = MAX_RETRIES

\* C7: minimum length.  An answer that is empty or shorter than 50 characters
\* is a failed attempt: no summary is returned for it and the attempt is
\* used up (a retry follows, or the raise after the third); a summary that
\* generateSummary returns never has a backend text shorter than 50.
C7_MinimumLength ==
  [][/\ ( /\ pc = "answered"
          /\ response.kind \in {"object", "string"}
          /\ length(response.text) < MIN_SUMMARY_LENGTH )
        => /\ summary' = <<>>
           /\ pc' # "getsha"
           /\ \/ attempt' = attempt + 1 /\ pc' = "summarize" /\ i' = i
              \/ attempt = MAX_RETRIES /\ outcomes' = Append(outcomes, "summarize")
     /\ summary' # <<>> => length(summary'[1].text) >= MIN_SUMMARY_LENGTH]_vars

\* A summary was returned on the attempt after a 49-character answer.
C7_Witness ==
  /\ pc = "getsha"
  /\ attempt = 2
  /\ summary # <<>>
  /\ length(summary[1].text) = MIN_SUMMARY_LENGTH

\* C8: fail-open ledger read.  When kv.get raises, isPostProcessed answers
\* false without raising: the record joins the new posts and the run goes on
\* (to the next record of the filter, or to processing).
C8_FailOpenRead ==
  [][(pc = "filtered" /\ kvAnswer = "raise") =>
       /\ newPosts' = Append(newPosts, posts[fIdx])
       /\ pc' \in {"filter", "summarize"}]_vars

\* A record that has a ledger entry from an earlier run is processed as new.
C8_Witness ==
  /\ readFailed
  /\ Processing
  /\ HasLedgerEntry(newPosts[i].guid)
  /\ kv[getPostKey(newPosts[i].guid)].timestamp < run

\* C9: fail-closed ledger write.  When kv.put raises, markPostProcessed
\* raises to scheduled (the record is caught and counted as failed, not as
\* succeeded) and the call leaves the ledger as it was.
C9_FailClosedWrite ==
  [][(pc = "mark" /\ faults' = Append(faults, "kv")) =>
       /\ kv' = kv
       /\ outcomes' = Append(outcomes, "mark")
       /\ failureCount' = failureCount + 1
       /\ successCount' = successCount]_vars

C9_Witness ==
  \E j \in 1..Len(outcomes) :
    /\ faults[j] = "kv"
    /\ outcomes[j] = "mark"
    /\ j \in pubOk
    /\ ~HasLedgerEntry(newPosts[j].guid)

\* C10: fatal fetch.  When the feed request fails (non-2xx answer or
\* transport failure) the run raises to its invoker and issues no
\* summarization, no publish and no ledger write.
C10_FatalFetch ==
  fetchStatus \in {"non2xx", "transport"} =>
    /\ pc = "fatal"
    /\ newPosts = <<>>
    /\ sumCalls = 0
    /\ pubCalls = 0
    /\ kvWrites = 0

\* The feed request fails in a run that follows one which marked a record.
C10_Witness ==
  /\ fetchStatus \in {"non2xx", "transport"}
  /\ pc = "fatal"
  /\ DOMAIN kv # {}

\* The bindings scheduled requires are all there: the AI binding and a
\* non-empty token, owner and repository name.
BindingsPresent ==
  /\ env.AI
  /\ env.GITHUB_TOKEN # ""
  /\ env.GITHUB_OWNER # ""
  /\ env.GITHUB_REPO # ""

\* C11: fatal preconditions.  When the AI binding is absent, or the token,
\* the owner or the repository name is missing or empty, every invocation
\* of scheduled raises before the feed is requested: no feed request, no
\* summarization, no publish, no ledger read and no ledger write is issued,
\* and neither the ledger nor the content store is touched.
C11_FatalPreconditions ==
  (run > 0 /\ ~BindingsPresent) =>
    /\ pc = "fatal"
    /\ fetchStatus = "none"
    /\ posts = <<>>
    /\ newPosts = <<>>
    /\ kvAnswer = "none"
    /\ ~readFailed
    /\ sumCalls = 0
    /\ pubCalls = 0
    /\ kvWrites = 0
    /\ kv = << >>
    /\ repo = << >>

\* The second invocation raised with the AI binding and the token present
\* and the owner empty.
C11_Witness ==
  /\ run = 2
  /\ pc = "fatal"
  /\ env.AI
  /\ env.GITHUB_TOKEN # ""
  /\ env.GITHUB_OWNER = ""

\* C12: degraded mode.  Without the ledger binding the run does not fail on
\* that account (it raises only when the feed request fails); every record
\* fetchBlogPosts returned is a new record, each of them is taken through
\* the processing loop, and the run issues no ledger listing, no ledger
\* read and no ledger write.
C12_DegradedMode ==
  (~env.PROCESSED_POSTS /\ BindingsPresent) =>
    /\ pc \notin {"count", "filter", "filtered", "mark"}
    /\ kvAnswer = "none"
    /\ ~readFailed
    /\ kvWrites = 0
    /\ markCalled = {}
    /\ kv = << >>
    /\ pc = "fatal" => fetchStatus \in {"non2xx", "transport"}
    /\ fetchStatus = "ok" => newPosts = posts
    /\ pc = "done" =>
         /\ Len(outcomes) = Len(posts)
         /\ sumCalls = Len(posts)
         /\ successCount + failureCount = Len(posts)

\* Without the ledger binding, a run over the three-item feed the previous
\* run had handled without failure handles all three items again.
C12_Witness ==
  /\ ~env.PROCESSED_POSTS
  /\ AtSummary
  /\ prevRun = <<feed>>
  /\ Len(posts) = 3
  /\ successCount = 3
  /\ kv = << >>

\* C13: the terminal SUMMARY never raises.  Once the feed was fetched the
\* invocation does not raise: it is in the filtering or the processing loop
\* or has returned, and it has returned once every new record has an
\* outcome, whatever the outcomes are.  An invocation that raised either
\* lacked a binding or met a failed feed request.
C13_SummaryNeverRaises ==
  /\ fetchStatus = "ok" => pc # "fatal"
  /\ pc = "fatal" => (~BindingsPresent \/ fetchStatus \in {"non2xx", "transport"})
  /\ (fetchStatus = "ok" /\ newPosts # <<>> /\ Len(outcomes) = Len(newPosts)) =>
       /\ pc = "done"
       /\ successCount + failureCount = Len(newPosts)

\* Every record of a three-record run failed, one in each step, and the run
\* returned.
C13_Witness ==
  /\ AtSummary
  /\ outcomes = <<"summarize", "publish", "mark">>
  /\ failureCount = 3
  /\ successCount = 0

\* The position of x in the sequence q of distinct elements.
IndexIn(q, x) == CHOOSE j \in 1..Len(q) : q[j] = x

\* The requests of the invocation that are awaiting their answer.
InFlight ==
  {r \in {"kv.get", "ai.run"} :
     \/ r = "kv.get" /\ kvAnswer # "none"
     \/ r = "ai.run" /\ response # NoAnswer}

\* C14: strictly sequential processing.  At most one request of the
\* invocation awaits its answer; the new records are the feed's records in
\* document order and are handled in that order; while record i is handled
\* every record before it has its outcome (published and, with a ledger,
\* marked, or failed), nothing of a later record has been published or
\* marked, and no summarization beyond that of record i was started.
C14_Sequential ==
  /\ Cardinality(InFlight) <= 1
  /\ kvAnswer # "none" => pc = "filtered"
  /\ response # NoAnswer => pc = "answered"
  /\ fetchStatus = "ok" =>
       /\ \A j \in 1..Len(posts) : posts[j] = feed[j]
       /\ \A j, k \in 1..Len(newPosts) :
            j < k => IndexIn(feed, newPosts[j]) < IndexIn(feed, newPosts[k])
  /\ Processing =>
       /\ Len(outcomes) = i - 1
       /\ sumCalls \in {i - 1, i}
       /\ pc # "summarize" => sumCalls = i
  /\ sumCalls <= Len(outcomes) + 1
  /\ pubOk \subseteq 1..i
  /\ markCalled \subseteq 1..i
  /\ \A j \in 1..Len(outcomes) :
       outcomes[j] = "ok" =>
         /\ j \in pubOk
         /\ env.PROCESSED_POSTS => j \in markCalled

\* The summarization of the third record is awaiting its answer; the first
\* record was published and marked, the second failed in its publish.
C14_Witness ==
  /\ pc = "answered"
  /\ i = 3
  /\ env.PROCESSED_POSTS
  /\ outcomes = <<"ok", "publish">>
  /\ markCalled = {1}
  /\ Cardinality(InFlight) = 1

\* The call followed on its own got as far as the PUT request: the
\* encoding did not raise.
ReachedWrite == pubArtifact # <<>> /\ ~btoaRaises(jsonStringify(pubArtifact[1]))

\* C15: conditional write shape.  A publishToGitHub call sends no PUT
\* before its write step and exactly one in it, none at all when the
\* encoding raises; the PUT carries the marker getFileSha returned and the
\* "update" message when getFileSha returned one, and carries no marker and
\* the "add" message when it returned none.
C15_ConditionalWriteShape ==
  /\ Len(pubRequests) <= 1
  /\ pubPc # "returned" => pubRequests = <<>>
  /\ pubPc = "returned" =>
       IF ReachedWrite
       THEN /\ Len(pubRequests) = 1
            /\ pubRequests[1].content = btoa(jsonStringify(pubArtifact[1]))
            /\ pubRequests[1].sha # <<>> <=> pubExistingSha # <<>>
            /\ pubExistingSha # <<>> =>
                 /\ pubRequests[1].sha = pubExistingSha
                 /\ pubRequests[1].message =
                      <<"chore: update summary for ", pubArtifact[1].title>>
            /\ pubExistingSha = <<>> =>
                 pubRequests[1].message =
                   <<"feat: add summary for ", pubArtifact[1].title>>
       ELSE pubRequests = <<>>

\* A call found a marker at the path and sent the update that was accepted.
C15_Witness ==
  /\ pubPc = "returned"
  /\ pubExistingSha # <<>>
  /\ Len(pubRequests) = 1
  /\ pubRequests[1].sha = pubExistingSha
  /\ pubAnswer = "2xx"

FailsParsing(d) ==
  \/ d.title.form # "cdata"
  \/ d.title.text = <<>>
  \/ d.link.form \notin {"plain", "attr"}
  \/ d.link.text = <<>>
  \/ d.guid.form \notin {"plain", "attr"}
  \/ d.guid.text = <<>>

ParsesWell(d) == ~FailsParsing(d)

\* The item is one a reader of the feed gets a title, a link and a guid from.
WellFormed(d) ==
  /\ ParsesWell(d)
  /\ d.expect.title # <<>>
  /\ d.expect.link # <<>>
  /\ d.expect.guid # <<>>

\* The title, link and guid of each post.
RequiredFields(ps) ==
  [k \in DOMAIN ps |-> [title |-> ps[k].title, link |-> ps[k].link, guid |-> ps[k].guid]]

\* What a reader of the feed takes from each item.
ExpectOf(ds) == [k \in DOMAIN ds |-> ds[k].expect]

\* parseRSSFeed has gone through the item blocks.
ParseOver == fbpPc \in {"slice", "returned"}

\* C18: parser resilience.  Once parseRSSFeed has gone through a document,
\* its posts are those of the items whose parsing did not raise, in
\* document order, and the call did not raise; for a document of N item
\* blocks of which one fails item parsing and the others are well-formed,
\* these are the N-1 well-formed records.
C18_ParserResilience ==
  /\ fbpPc = "item" =>
       RequiredFields(parsed)
         = ExpectOf(SelectSeq(SubSeq(feedItems, 1, itemIdx - 1), ParsesWell))
  /\ ParseOver =>
       /\ RequiredFields(parsed) = ExpectOf(SelectSeq(feedItems, ParsesWell))
       /\ ( /\ Cardinality({k \in DOMAIN feedItems : FailsParsing(feedItems[k])}) = 1
            /\ \A k \in DOMAIN feedItems :
                 FailsParsing(feedItems[k]) \/ WellFormed(feedItems[k]) )
          => /\ Len(parsed) = Len(feedItems) - 1
             /\ RequiredFields(parsed) = ExpectOf(SelectSeq(feedItems, WellFormed))

\* A document of three item blocks, the second without a link, was parsed
\* into the first and the third record.
C18_Witness ==
  /\ fbpPc = "returned"
  /\ maxPosts = 0
  /\ Len(feedItems) = 3
  /\ WellFormed(feedItems[1])
  /\ feedItems[2].link.form = "absent"
  /\ WellFormed(feedItems[3])
  /\ feedItems[1] # feedItems[3]
  /\ Len(fbpReturn[1]) = 2
  /\ fbpReturn[1][2].guid = feedItems[3].expect.guid

\* C19: required-field invariant.  Every record fetchBlogPosts returns has a
\* non-empty title, a non-empty link and a non-empty guid, as returned (that
\* is, cleaned and entity-decoded); an item that gives no such record is
\* left out.
C19_RequiredFields ==
  fbpPc = "returned" =>
    /\ \A k \in DOMAIN fbpReturn[1] :
         /\ fbpReturn[1][k].title # <<>>
         /\ fbpReturn[1][k].link # <<>>
         /\ fbpReturn[1][k].guid # <<>>
    /\ Len(fbpReturn[1]) <= Len(SelectSeq(feedItems, WellFormed))

\* The smaller of two numbers.
MinOf(a, b) == IF a <= b THEN a ELSE b

\* C20: maxItems truncation.  For a feed with k valid records (each of its
\* items is well-formed or fails item parsing) and a given maxPosts value
\* N >= 0, fetchBlogPosts returns the first min(N, k) valid records in
\* document order, hence never more than N records.
C20_MaxItemsTruncation ==
  ( /\ fbpPc = "returned"
    /\ \A k \in DOMAIN feedItems : FailsParsing(feedItems[k]) \/ WellFormed(feedItems[k]) )
  => LET valid == SelectSeq(feedItems, WellFormed)
     IN  /\ RequiredFields(fbpReturn[1])
              = ExpectOf(SubSeq(valid, 1, MinOf(maxPosts, Len(valid))))
         /\ Len(fbpReturn[1]) <= maxPosts

\* ------------------------------------------------------- the slug functions

\* slug is in normal form: lower-case letters, digits and hyphens, no hyphen
\* at either end and no two hyphens in a row.
NormalForm(slug) ==
  /\ \A k \in 1..Len(slug) : slug[k] \in LowerLetters \cup Digits \cup {"-"}
  /\ slug # <<>> => slug[1] # "-" /\ slug[Len(slug)] # "-"
  /\ \A k \in 1..(Len(slug) - 1) : ~(slug[k] = "-" /\ slug[k + 1] = "-")

\* C21: for every title, the slug generateSlug returns has only lower-case
\* ASCII letters, digits and hyphens, no hyphen at either end and no two
\* adjacent hyphens; a second call on the same title returns the same slug;
\* generateSlug of the slug is the slug; and the titles of the tests give
\* the slugs the tests expect ("---Test Title---" gives "test-title").
C21_SlugNormalForm ==
  slugFn = "generateSlug" =>
    /\ \A k \in 1..Len(slugCalls) :
         /\ NormalForm(slugCalls[k])
         /\ slugCalls[k] = slugCalls[1]
         /\ \A t \in SlugTests : slugArg = t.title => slugCalls[k] = t.expect
    /\ slugOfSlug # <<>> => slugOfSlug[1] = slugCalls[1]

\* generateSlug was called twice on "---Test Title---", which has upper-case
\* letters, a blank and hyphens at both ends, and once more on its slug.
C21_Witness ==
  /\ slugFn = "generateSlug"
  /\ slugArg = <<"-","-","-","T","e","s","t"," ","T","i","t","l","e","-","-","-">>
  /\ Len(slugCalls) = 2
  /\ slugCalls[2] = <<"t","e","s","t","-","t","i","t","l","e">>
  /\ slugOfSlug = <<slugCalls[1]>>

\* What follows the scheme and the blog's host in url, or <<>> when url does
\* not start with them.
PathOnBlog(url) ==
  IF MatchesAt(url, 1, Https \o BlogHostSlash)
  THEN SubSeq(url, Len(Https \o BlogHostSlash) + 1, Len(url))
  ELSE <<>>

HasSlash(s) == \E k \in 1..Len(s) : s[k] = "/"

LedgerKeys == Listing(lstKeys, "post:", 1)

\* Some kv.list request of the call raised.
ListFailed == lstResult # <<>> /\ lstResult[1].raised

\* The call is about to ask for a further page.
AsksFurtherPage == lstPc = "list" /\ lstRequests # <<>>

\* C23: when no kv.list call fails, getProcessedPostCount returns the number
\* of keys under the prefix post:, over any number of pages; it asks for a
\* further page only after a page that did not report completion, and the
\* page it returns after is the one that reported completion.
C23_CountPagination ==
  lstFn = "getProcessedPostCount" =>
    /\ (lstReturn # <<>> /\ ~ListFailed) =>
         /\ lstReturn[1] = Len(LedgerKeys)
         /\ lstResult[1].list_complete
    /\ AsksFurtherPage => ~lstResult[1].list_complete

\* getProcessedPostCount returned 3 for three ledger keys and one key of
\* another prefix, after three pages.
C23_Witness ==
  /\ lstFn = "getProcessedPostCount"
  /\ KeyOrder[Len(KeyOrder)] \in lstKeys
  /\ Len(LedgerKeys) = 3
  /\ lstReturn = <<3>>
  /\ Len(lstRequests) = 3

Requested == {bchGuids[k] : k \in 1..Len(bchGuids)}

\* The position of guid g whose read completed last.
LastRead(g) ==
  LET done == {j \in 1..Len(bchOrder) : bchGuids[bchOrder[j]] = g}
  IN  bchOrder[CHOOSE j \in done : \A h \in done : h <= j]

\* What a point read at position k returns: whether the key is in the
\* namespace, and false when kv.get raised.
PointRead(k) == k \notin bchFailed /\ getPostKey(bchGuids[k]) \in DOMAIN bchKv

\* C25, as stated: the map returned has one entry per distinct requested
\* guid, the entry of every requested guid is what the read of that guid
\* returned whatever the order in which the reads completed, the call does
\* not raise and the guid of a failed read maps to false.
C25_Original ==
  /\ bchPc # "raised"
  /\ bchPc = "done" =>
       /\ DOMAIN bchResults = Requested
       /\ \A k \in 1..Len(bchGuids) :
            /\ bchResults[bchGuids[k]] = PointRead(k)
            /\ k \in bchFailed => ~bchResults[bchGuids[k]]

\* C25, amended: the call does not raise; the map returned has one entry
\* per distinct requested guid, which is what the read of that guid that
\* completed last returned; so for a guid whose reads all returned the same
\* (a guid requested once, or reads that did not fail) the entry does not
\* depend on the order of completion, and the guid of a failed read maps to
\* false unless a later read of the same guid returned true.
C25_BatchCheck ==
  /\ bchPc # "raised"
  /\ bchPc = "done" =>
       /\ DOMAIN bchResults = Requested
       /\ \A g \in Requested :
            LET reads == {k \in 1..Len(bchGuids) : bchGuids[k] = g}
            IN  /\ bchResults[g] = PointRead(LastRead(g))
                /\ bchResults[g] = bchReads[LastRead(g)][1]
                /\ (\A j, k \in reads : PointRead(j) = PointRead(k)) =>
                     \A k \in reads : bchResults[g] = PointRead(k)

\* A batch over g1, g2, g1 with g1 in the ledger returned after the first
\* read of g1 failed and completed last: g1 maps to false, although the
\* other read of g1 returned true.
C25_Witness ==
  /\ bchPc = "done"
  /\ bchGuids = <<"g1", "g2", "g1">>
  /\ getPostKey("g1") \in DOMAIN bchKv
  /\ bchFailed = {1}
  /\ bchOrder = <<3, 2, 1>>
  /\ bchReads[3] = <<TRUE>>
  /\ DOMAIN bchResults = {"g1", "g2"}
  /\ ~bchResults["g1"]

\* ------------------------------------------------- successive invocations

\* The invocation is over: it returned, raised or was stopped.
Ended(r) == invs[r].pc \in {"done", "fatal", "crashed"}

\* The positions in newPosts of invocation r that hold the guid.
PositionsOf(r, guid) ==
  {j \in 1..Len(invs[r].newPosts) : invs[r].newPosts[j].guid = guid}

\* Invocation r counted the record of the guid as failed, in summarization
\* or in publish.
FailedIn(r, guid) ==
  \E j \in PositionsOf(r, guid) :
    j <= Len(invs[r].outcomes) /\ invs[r].outcomes[j] \in {"summarize", "publish"}

\* The ledger entry of the guid, if any, was written by invocation r.
WrittenBy(r, guid) ==
  getPostKey(guid) \in DOMAIN sharedKv /\ sharedKv[getPostKey(guid)].timestamp = r

\* The step is the turn of the filtering loop of invocation r.
FilterTurn(r) ==
  /\ invs[r].pc = "filter"
  /\ invs'[r].pc # "filter" \/ invs'[r].fIdx # invs[r].fIdx

\* The record the filtering loop of invocation r is at.
AtFilter(r) == invs[r].posts[invs[r].fIdx]

MarkedIn(r, guid) ==
  \E j \in PositionsOf(r, guid) :
    j <= Len(invs[r].outcomes) /\ invs[r].outcomes[j] = "ok"

\* Invocation r got a summary of the record of the guid and called
\* publishToGitHub with it.
AttemptedIn(r, guid) ==
  \E j \in PositionsOf(r, guid) :
    \/ j <= Len(invs[r].outcomes) /\ invs[r].outcomes[j] \in {"ok", "publish", "mark"}
    \/ j = invs[r].i /\ invs[r].pc \in {"put", "mark", "crashed"}

Guids == {q.guid : q \in AllPosts}

\* C27: nothing excludes two invocations from each other.  The ledger is
\* read in FILTERING and written after the publish, so an invocation that
\* read the ledger processes a guid that an earlier invocation has marked
\* only if it was in progress together with another invocation; with two
\* invocations that overlap, a state in which both summarized the same guid
\* and attempted its publish is reachable (C27_Witness).
C27_NoMutualExclusion ==
  \A r, s \in Invocations : \A g \in Guids :
    ( /\ r < s
      /\ MarkedIn(r, g)
      /\ AttemptedIn(s, g)
      /\ g \notin invs[s].readRaised )
    => ~invs[s].alone

\* Two invocations that overlapped both read the ledger without failure,
\* both summarized the record and both published and marked it.
C27_Witness ==
  \E g \in Guids :
    /\ AttemptedIn(1, g) /\ AttemptedIn(2, g)
    /\ MarkedIn(1, g) /\ MarkedIn(2, g)
    /\ invs[1].readRaised = {} /\ invs[2].readRaised = {}
    /\ ~invs[1].alone /\ ~invs[2].alone
    /\ invs[3].pc = "idle"

\* Invocation r was stopped between the publish and the ledger mark of the
\* record of the guid.
CrashedOn(r, guid) ==
  /\ invs[r].pc = "crashed"
  /\ invs[r].newPosts[invs[r].i].guid = guid

\* No invocation has started after invocation r.
Latest(r) == r = MaxInvocations \/ invs[r + 1].pc = "idle"

\* Invocation s, the next after one that was stopped on the guid, is over:
\* it ran on its own, none of its requests failed and the record was in
\* its feed.
RecoveredBy(s, guid) ==
  /\ invs[s].pc = "done"
  /\ invs[s].alone
  /\ invs[s].clean
  /\ Latest(s)
  /\ \E k \in 1..Len(invs[s].posts) : invs[s].posts[k].guid = guid

\* Invocation s summarized the record again, published it as an update
\* carrying the revision marker and wrote its ledger entry; the record has
\* exactly one artifact.
Republished(s, guid) ==
  /\ PositionsOf(s, guid) # {}
  /\ \A j \in PositionsOf(s, guid) : invs[s].outcomes[j] = "ok"
  /\ guid \in invs[s].updated
  /\ WrittenBy(s, guid)
  /\ Cardinality(ArtifactPaths(sharedRepo, guid)) = 1

\* C29, as stated: after an invocation was stopped between the publish and
\* the ledger mark of a record, the artifact exists and the ledger has no
\* entry of the record; the next invocation summarizes the record again,
\* republishes it as an update carrying the revision marker and writes the
\* ledger entry, leaving exactly one artifact.
C29_Original ==
  \A r \in Invocations : \A g \in Guids :
    (CrashedOn(r, g) /\ invs[r].alone) =>
      /\ Latest(r) =>
           /\ ArtifactPaths(sharedRepo, g) # {}
           /\ getPostKey(g) \notin DOMAIN sharedKv
      /\ (r < MaxInvocations /\ RecoveredBy(r + 1, g)) => Republished(r + 1, g)

\* C29, amended: after an invocation was stopped between the publish and
\* the ledger mark of a record, the artifact exists, and the ledger has no
\* entry of the record provided the stopped invocation had read the ledger
\* for it; then the next invocation summarizes the record again,
\* republishes it as an update carrying the revision marker and writes the
\* ledger entry.  When the stopped invocation was processing the record
\* after a failed ledger read, the record may have an entry of an earlier
\* invocation, and then the next invocation drops it in FILTERING and
\* leaves entry and artifact as they are.  Either way the record has
\* exactly one artifact.
C29_CrashRecovery ==
  \A r \in Invocations : \A g \in Guids :
    (CrashedOn(r, g) /\ invs[r].alone) =>
      /\ Latest(r) =>
           /\ ArtifactPaths(sharedRepo, g) # {}
           /\ g \notin invs[r].readRaised => getPostKey(g) \notin DOMAIN sharedKv
      /\ (r < MaxInvocations /\ RecoveredBy(r + 1, g)) =>
           /\ Cardinality(ArtifactPaths(sharedRepo, g)) = 1
           /\ g \notin invs[r].readRaised => Republished(r + 1, g)
           /\ \/ Republished(r + 1, g)
              \/ /\ PositionsOf(r + 1, g) = {}
                 /\ g \notin invs[r + 1].updated
                 /\ getPostKey(g) \in DOMAIN sharedKv
                 /\ sharedKv[getPostKey(g)].timestamp < r

\* The first invocation created the artifact of a record and was stopped
\* before the ledger mark; the second, on its own and without failure,
\* published the record as an update and wrote its ledger entry.
C29_Witness ==
  \E g \in Guids :
    /\ CrashedOn(1, g)
    /\ invs[1].alone
    /\ g \notin invs[1].readRaised
    /\ g \notin invs[1].updated
    /\ RecoveredBy(2, g)
    /\ Republished(2, g)

\* C28: ledger entries are written once.  Across the runs (none of which
\* deletes a key) an entry the ledger holds stays as it is, and the pass
\* that ends with a successful markPostProcessed writes a key the ledger
\* did not hold.
C28_WrittenOnce ==
  [][ /\ \A key \in DOMAIN kv : key \in DOMAIN kv' /\ kv'[key] = kv[key]
      /\ ( /\ pc = "mark"
           /\ Len(outcomes') = Len(outcomes) + 1
           /\ outcomes'[Len(outcomes')] = "ok" )
         => getPostKey(newPosts[i].guid) \notin DOMAIN kv ]_vars

\* The attempts of the call that have failed so far.
FailedAttempts ==
  IF genPc \in {"idle", "returned"} THEN Len(genAnswers) - 1
  ELSE IF genPc \in {"run", "answered"} THEN genAttempt - 1
  ELSE IF genPc = "sleep" THEN genAttempt
  ELSE MAX_RETRIES

SentCreate ==
  /\ Len(pubRequests) = 1
  /\ pubRequests[1].sha = <<>>
  /\ pubRequests[1].message = <<"feat: add summary for ", pubArtifact[1].title>>

\* The marker read of the call was answered with not-found.
ReadNotFound == pubReadNet = "ok" /\ pubAtRead = <<>>

\* The marker read of the call failed: it was answered with an error status
\* other than not-found, or its request raised.
ReadFailed == pubReadNet \in {"status", "raise"}

C32_ArtifactMapping ==
  slugFn = "createBlogPostSummary" =>
    /\ \A k \in 1..Len(slugCalls) :
         LET post    == slugArg[k]
             a       == slugCalls[k]
             urlSlug == extractSlugFromUrl(post.link)
         IN  /\ a.title = post.title
             /\ a.url = post.link
             /\ a.publishedAt = post.pubDate
             /\ a.authors = post.authors
             /\ a.categories = post.categories
             /\ a.guid = post.guid
             /\ a.summary = RecordSummary
             /\ a.slug = IF urlSlug # <<>> THEN urlSlug ELSE generateSlug(post.title)
             /\ filePath(a) = <<"site/content/posts/", a.slug, ".json">>
    /\ ( /\ Len(slugCalls) = 2
         /\ slugArg[1].link = slugArg[2].link
         /\ slugArg[1].title = slugArg[2].title )
       => /\ slugCalls[1].slug = slugCalls[2].slug
          /\ filePath(slugCalls[1]) = filePath(slugCalls[2])

\* createBlogPostSummary was called for two records that differ in guid,
\* date, authors and categories and have the same title and the same link,
\* from which no slug can be extracted: both artifacts have the slug of the
\* title.
C32_Witness ==
  /\ slugFn = "createBlogPostSummary"
  /\ Len(slugCalls) = 2
  /\ slugArg[1].guid # slugArg[2].guid
  /\ slugArg[1].pubDate # slugArg[2].pubDate
  /\ slugArg[1].authors # slugArg[2].authors
  /\ slugArg[1].link = slugArg[2].link
  /\ slugArg[1].title = slugArg[2].title
  /\ extractSlugFromUrl(slugArg[1].link) = <<>>
  /\ slugCalls[1].slug = <<"a", "-", "b">>
  /\ slugCalls[2].slug = <<"a", "-", "b">>

\* The positions of the blanks among the first prLimit characters of the
\* text that is truncated.
SpacesWithinLimit == {k \in 1..prLimit : k <= Len(prText) /\ prText[k] \in Whitespace}

\* C33: truncation boundary.  A text longer than the limit that has a
\* blank among its first limit characters comes back as the text before the
\* last such blank followed by "...": the longest prefix that ends at a
\* whitespace boundary within the limit, so no word is cut; "one two three
\* four" truncated to 11 characters gives "one two...".  A text no longer
\* than the limit comes back unchanged.
C33_TruncationBoundary ==
  prPc = "truncated" =>
    /\ Len(prText) <= prLimit => prResult = <<prText>>
    /\ (Len(prText) > prLimit /\ SpacesWithinLimit # {}) =>
         LET last == CHOOSE k \in SpacesWithinLimit : \A j \in SpacesWithinLimit : j <= k
         IN  /\ prResult = <<SubSeq(prText, 1, last - 1) \o Ellipsis>>
             /\ prText[last] = " "
    /\ Len(prText) > prLimit =>
         /\ Len(prResult[1]) <= prLimit + Len(Ellipsis)
         /\ SubSeq(prResult[1], Len(prResult[1]) - 2, Len(prResult[1])) = Ellipsis
    /\ (prText = OneTwoThreeFour /\ prLimit = 11) =>
         prResult = << <<"o","n","e"," ","t","w","o",".",".",".">> >>

\* "one two three four" was truncated to 11 characters.
C33_Witness ==
  /\ prPc = "truncated"
  /\ prText = OneTwoThreeFour
  /\ prLimit = 11
  /\ prResult = << <<"o","n","e"," ","t","w","o",".",".",".">> >>

\* The artifact stored in a file of the repository.
ArtifactIn(file) == file.content.base64.json

\* generateSummary followed on its own: the summary it returns has the
\* disclaimer in front of the trimmed text of the last answer when
\* includeDisclaimer was given as true or left out, and is that text alone
\* when it was given as false.
GenDisclaimerByOption ==
  genPc = "returned" =>
    /\ genReturn[1].text = trim(genAnswers[Len(genAnswers)].text)
    /\ genReturn[1].disclaimer <=> genOptions \in {<<>>, <<TRUE>>}

Held(outcome) == IF outcome.raised THEN Fallback ELSE outcome.summary[1]

\* C35: batch summarization with fallback.  generateSummaries calls
\* generateSummary for the posts in order, never raises, and returns a list
\* as long as posts; position k holds the summary the k-th call returned,
\* or the fallback text when that call raised after its retries; what a
\* position holds is not changed by the calls that follow it.
C35_BatchFallback ==
  [][ /\ gsPc' \in {"idle", "loop", "awaiting", "returned"}
      /\ Len(gsSummaries') = Len(gsOutcomes')
      /\ \A k \in 1..Len(gsSummaries) :
           /\ k <= Len(gsSummaries')
           /\ gsSummaries'[k] = gsSummaries[k]
      /\ \A k \in 1..Len(gsSummaries') :
           /\ gsSummaries'[k] = Held(gsOutcomes'[k])
           /\ gsOutcomes'[k].raised <=> gsSummaries'[k] = Fallback
      /\ gsCalledFor' = SubSeq(gsPosts', 1, Len(gsCalledFor'))
      /\ gsPc' = "awaiting" => Len(gsCalledFor') = Len(gsSummaries') + 1
      /\ gsPc' = "returned" =>
           /\ gsReturn' = <<gsSummaries'>>
           /\ Len(gsSummaries') = Len(gsPosts')
           /\ gsCalledFor' = gsPosts' ]_vars

\* generateSummaries returned for two posts: the summarization of the first
\* failed after three attempts and its position holds the fallback, the
\* second has its summary.
C35_Witness ==
  /\ gsPc = "returned"
  /\ Len(gsPosts) = 2
  /\ gsOutcomes[1].raised
  /\ ~gsOutcomes[2].raised
  /\ gsReturn[1][1] = Fallback
  /\ gsReturn[1][2] = gsOutcomes[2].summary[1]
  /\ gsReturn[1][2].disclaimer

\* C36: an unparseable feed is fatal.  When the feed request is answered
\* with success and no item can be extracted from the document, the run
\* raises to its invoker and writes nothing to the ledger.
C36_UnparseableFatal ==
  (fetchStatus = "ok" /\ feed = <<>> /\ pc \notin {"idle", "fetch"}) =>
    /\ pc = "fatal"
    /\ kvWrites = 0

\* C37: error bodies of the debug endpoints.  Every response of /test,
\* /test-kv, /test-ai, /test-github and /trigger with a 4xx or 5xx status
\* has a JSON body with the key `error`; /health answers 200.
C37_ErrorBodies ==
  hPc = "responded" =>
    /\ hResponse[1].status >= 400 =>
         /\ hResponse[1].json
         /\ "error" \in hResponse[1].keys
    /\ hPath = "/health" => hResponse[1].status = 200

\* markPostProcessed raises for the record being processed, whose publish
\* succeeded: the step that ends the record in the catch block.
MarkRaises == pc = "mark" /\ i \in pubOk /\ outcomes' = Append(outcomes, "mark")

\* The record is counted as a failure, the run does not abort and goes on to
\* the next record (or to SUMMARY after the last one), and the artifact of
\* the record stays in the content store.
MarkFailureCaught ==
  /\ failureCount' = failureCount + 1
  /\ successCount' = successCount
  /\ pc' = IF i < Len(newPosts) THEN "summarize" ELSE "done"
  /\ i' = IF i < Len(newPosts) THEN i + 1 ELSE i
  /\ repo' = repo
  /\ FileAt(repo', filePath(postSummary)) # <<>>
  /\ ArtifactIn(repo'[filePath(postSummary)]).guid = newPosts[i].guid

\* C38 as stated: ledger-write failure is isolated per item.  When
\* markPostProcessed raises for record i after its publish succeeded, the
\* record is counted as a failure, the run goes on with the later records,
\* and the artifact of record i stays published without a ledger entry.
C38_Original ==
  [][MarkRaises => /\ MarkFailureCaught
                   /\ ~HasLedgerEntry(newPosts[i].guid)']_vars

\* C38, amended: ledger-write failure is isolated per item.  When
\* markPostProcessed raises for record i after its publish succeeded, the
\* record is counted as a failure, the run goes on with the later records
\* (every new record has an outcome at SUMMARY), the artifact of record i
\* stays published and the ledger is left as it was: the record has no entry
\* of this run, and has an entry at all only when an earlier run wrote it and
\* a ledger read of this run failed.
C38_MarkFailureIsolated ==
  /\ [][MarkRaises =>
          /\ MarkFailureCaught
          /\ kv' = kv
          /\ HasLedgerEntry(newPosts[i].guid) =>
               /\ kv[getPostKey(newPosts[i].guid)].timestamp < run
               /\ readFailed]_vars
  /\ [](AtSummary => Len(outcomes) = Len(newPosts))

\* The ledger write of a record failed after its publish, a later record of
\* the same run was processed to its end, and the run reached SUMMARY with
\* the artifact of the first in the content store and no ledger entry for it.
C38_Witness ==
  /\ AtSummary
  /\ \E j \in 1..Len(outcomes) :
       /\ j < Len(outcomes)
       /\ outcomes[j] = "mark"
       /\ outcomes[j + 1] = "ok"
       /\ j \in pubOk
       /\ ArtifactPaths(repo, newPosts[j].guid) # {}
       /\ ~HasLedgerEntry(newPosts[j].guid)

\* The ledger entries written by the run in progress: markPostProcessed
\* stamps each entry with the time of its write.
EntriesOfRun == {key \in DOMAIN kv : kv[key].timestamp = run}

\* C39: outcome accounting.  At every point of the processing loop
\* successCount + failureCount is the number of records handled so far; at
\* SUMMARY the two counts add up to the number of new records; with the
\* ledger binding present successCount is the number of ledger entries the
\* run has written.
C39_OutcomeAccounting ==
  /\ Processing =>
       /\ successCount + failureCount = i - 1
       /\ successCount + failureCount = Len(outcomes)
  /\ AtSummary => successCount + failureCount = Len(newPosts)
  /\ (hasLedger(env) /\ (Processing \/ AtSummary)) =>
       successCount = Cardinality(EntriesOfRun)

\* A run with the ledger binding reached SUMMARY after a record that
\* succeeded and a record that failed; one entry was written.
C39_Witness ==
  /\ AtSummary
  /\ hasLedger(env)
  /\ successCount = 1
  /\ failureCount >= 1
  /\ Cardinality(EntriesOfRun) = 1

\* An invocation of scheduled is under way.
Running == pc \in Underway

\* The invocation is over: it returned or raised to its invoker.
Terminal == pc \in {"done", "fatal"}

\* The requests to the generative backend the run has issued are at most
\* these: aiCalls counts the requests of the generateSummary call in
\* progress (or of the last one), and each of the sumCalls - 1 calls before
\* it issued at most MAX_RETRIES.
AiRequestsBound ==
  IF sumCalls = 0 THEN 0 ELSE MAX_RETRIES * (sumCalls - 1) + aiCalls

\* C40: run termination.  When every network call returns or fails in the
\* end, every invocation of scheduled over a feed of N records reaches a
\* terminal state (it returns or raises), and it has issued at most 3*N
\* requests to the generative backend, at most N publish calls and at most
\* N ledger writes.
C40_RunTermination ==
  /\ Running ~> Terminal
  /\ [](/\ aiCalls <= MAX_RETRIES
        /\ sumCalls <= Len(posts)
        /\ AiRequestsBound <= 3 * Len(posts)
        /\ pubCalls <= Len(posts)
        /\ kvWrites <= Len(posts))

\* A run over a feed of two records has returned after two generateSummary
\* calls, the last with three requests, two publish calls and two ledger
\* writes.
C40_Witness ==
  /\ pc = "done"
  /\ Len(posts) = 2
  /\ sumCalls = 2
  /\ aiCalls = MAX_RETRIES
  /\ pubCalls = 2
  /\ kvWrites = 2

====
